---- MODULE Spec2Model ----
(***************************************************************************)
(* Semantic retrieval core of kb-template-core: the shared embedding       *)
(* provider, the brute-force cosine ranking, the three per-source search   *)
(* adapters (discord, docs, knowledge) with their lazily loaded snapshot   *)
(* caches, hybrid re-ranking, and the unified fan-out over the adapters.   *)
(*                                                                         *)
(* Numbers.  Scores are exact rationals kept as integers:                  *)
(*   similarity      in units of 1/SimScale   (cosine of integer vectors   *)
(*                   whose norms are whole numbers, so no rounding),       *)
(*   semantic_weight in units of 1/WeightScale,                            *)
(*   hybrid_score    in units of 1/(SimScale*WeightScale*5*#keywords).     *)
(* Strings are sequences of one-character strings; "" / <<>> is the JS     *)
(* falsy empty string, which is also how an unset filter is written.       *)
(***************************************************************************)
EXTENDS Integers, Sequences, FiniteSets, TLC

VARIABLES
    disk,           \* [Sources -> 0..MaxVersion]: generation of vectors.json on disk, 0 = file absent
    vectors,        \* [Sources -> 0..MaxVersion]: module-level `vectors` of each adapter, 0 = null
    vectorDbPath,   \* [Sources -> BOOLEAN]: module-level `vectorDbPath` resolved or still null
    embedder,       \* module-level `embedder`: 0 = null, n = handle returned by the n-th pipeline() call
    pipelineCalls,  \* number of pipeline() invocations so far
    loadCalls,      \* [Sources -> Nat]: number of loadVectorDb invocations per adapter
    req,            \* [Requests -> request record]: the tool calls in flight
    call,           \* [Requests -> [Sources -> per-source call record]]
    coll,           \* [Sources -> collection]: warm caches of the sequential search model
    arg,            \* parameters of the search under test
    qvec,           \* the embedding the provider returns for arg.query
    out,            \* last operation applied and what it returned
    fs,             \* [Paths -> file]: the files and directories on disk
    save,           \* the saveVectorDb call of the indexing run
    load,           \* the loadVectorDb call (direct, or made by an adapter's first query)
    job,            \* the indexDocuments / incrementalIndex call of the indexing run
    chunked         \* the chunkText call under test and what it returned

vars == <<disk, vectors, vectorDbPath, embedder, pipelineCalls, loadCalls, req, call,
          coll, arg, qvec, out, fs, save, load, job, chunked>>

\* the state of the indexing side
indexVars == <<fs, save, load, job, chunked>>

Sources == {"discord", "docs", "knowledge"}

\* searchPromises are pushed in this order (unified.js): discord, docs, knowledge
SourceOrder == <<"discord", "docs", "knowledge">>

-----------------------------------------------------------------------------
(* Generic helpers                                                         *)

Min(a, b) == IF a <= b THEN a ELSE b

RECURSIVE SumSeq(_)
SumSeq(s) == IF s = <<>> THEN 0 ELSE Head(s) + SumSeq(Tail(s))

RECURSIVE Concat(_)
Concat(ss) == IF ss = <<>> THEN <<>> ELSE Head(ss) \o Concat(Tail(ss))

\* a slice that ignores its end index
SliceWhole(s, n) == s

\* Array.prototype.slice(0, n) for n >= 0
Slice(s, n) == SubSeq(s, 1, Min(n, Len(s)))

\* Array.prototype.sort((a, b) => Key(b) - Key(a)): a stable sort, descending by Key.
\* Element i lands after every element with a larger key and after the earlier
\* elements with an equal key.
SortDesc(s, Key(_)) ==
    LET n == Len(s)
        rank(i) == 1 + Cardinality({j \in 1..n :
                          \/ Key(s[j]) > Key(s[i])
                          \/ Key(s[j]) = Key(s[i]) /\ j < i})
    IN  [p \in 1..n |-> s[CHOOSE i \in 1..n : rank(i) = p]]

-----------------------------------------------------------------------------
(* Strings                                                                 *)

LowerChar(c) == IF c = "A" THEN "a" ELSE IF c = "B" THEN "b" ELSE c

\* String.prototype.toLowerCase
toLowerCase(str) == [i \in 1..Len(str) |-> LowerChar(str[i])]

IsSpace(c) == c \in {" ", "\n"}

\* String.prototype.split(/\s+/): cut at every maximal run of whitespace; a
\* leading or trailing run leaves an empty string at that end.
RECURSIVE SplitFrom(_, _, _)
SplitFrom(str, i, cur) ==
    IF i > Len(str) THEN <<cur>>
    ELSE IF IsSpace(str[i])
         THEN IF i > 1 /\ IsSpace(str[i - 1])
              THEN SplitFrom(str, i + 1, cur)
              ELSE <<cur>> \o SplitFrom(str, i + 1, <<>>)
         ELSE SplitFrom(str, i + 1, Append(cur, str[i]))

splitWhitespace(str) == SplitFrom(str, 1, <<>>)

\* new RegExp(keyword, 'g') throws a SyntaxError when the keyword is no regular
\* expression.  Keywords here are made of letters, "." and "(": a "(" opens a
\* group that nothing closes.
invalidPattern(keyword) == \E j \in 1..Len(keyword) : keyword[j] = "("

\* one pattern character against one character of the text: "." stands for
\* any character but a line break, a letter for itself
matchesChar(p, c) == IF p = "." THEN c # "\n" ELSE p = c

\* (text.match(new RegExp(keyword, 'g')) || []).length for a keyword that is a
\* regular expression of letters and ".": leftmost non-overlapping
\* occurrences; the empty pattern matches once at every position, the end
\* included.
RECURSIVE MatchFrom(_, _, _)
MatchFrom(text, kw, i) ==
    IF kw = <<>> THEN Len(text) + 1
    ELSE IF i + Len(kw) - 1 > Len(text) THEN 0
    ELSE IF \A j \in 1..Len(kw) : matchesChar(kw[j], text[i + j - 1])
         THEN 1 + MatchFrom(text, kw, i + Len(kw))
         ELSE MatchFrom(text, kw, i + 1)

countMatches(text, keyword) == MatchFrom(text, keyword, 1)

\* String.prototype.includes
includes(str, part) ==
    \E i \in 1..(Len(str) - Len(part) + 1) : SubSeq(str, i, i + Len(part) - 1) = part

-----------------------------------------------------------------------------
(* Outcomes of a call: a returned value or a thrown Error(message)          *)

Returned(v) == [threw |-> FALSE, error |-> "", value |-> v]

Threw(msg) == [threw |-> TRUE, error |-> msg, value |-> <<>>]

-----------------------------------------------------------------------------
(* core/vector-search.js                                                   *)

\* fixed-point unit of a similarity: 1.0 is SimScale
SimScale == 25

\* Math.sqrt on the whole-number norms the model's vectors have
ISqrt(n) == CHOOSE r \in 0..n : r * r = n

Dot(a, b) == SumSeq([i \in 1..Len(a) |-> a[i] * b[i]])

\* A buggy variant that compares the common prefix instead of throwing.
cosineSimilarityTruncating(a, b) ==
    LET n     == Min(Len(a), Len(b))
        a1    == SubSeq(a, 1, n)
        b1    == SubSeq(b, 1, n)
        normA == ISqrt(Dot(a1, a1))
        normB == ISqrt(Dot(b1, b1))
    IN  IF normA = 0 \/ normB = 0
        THEN Returned(0)
        ELSE Returned((Dot(a1, b1) * SimScale) \div (normA * normB))

cosineSimilarity(a, b) ==
    IF Len(a) # Len(b)
    THEN Threw("Vectors must have the same length")
    ELSE LET normA == ISqrt(Dot(a, a))
             normB == ISqrt(Dot(b, b))
         IN  IF normA = 0 \/ normB = 0
             THEN Returned(0)
             ELSE Returned((Dot(a, b) * SimScale) \div (normA * normB))

Similarity(r) == r.similarity

\* A buggy variant that cuts the scored copy without sorting it.
vectorSearchUnsorted(queryVector, documents, limit) ==
    LET sims == [i \in 1..Len(documents) |->
                    cosineSimilarity(queryVector, documents[i].embedding)]
        bad  == {i \in 1..Len(documents) : sims[i].threw}
    IN  IF bad # {}
        THEN Threw(sims[CHOOSE i \in bad : \A j \in bad : i <= j].error)
        ELSE Returned(Slice([i \in 1..Len(documents) |->
                                [similarity |-> sims[i].value,
                                 embedding  |-> documents[i].embedding,
                                 pos        |-> i,
                                 id         |-> documents[i].id,
                                 metadata   |-> documents[i].metadata]], limit))

\* A buggy variant whose sort is not stable: it scores the collection back to
\* front, so records of equal similarity come out in reverse collection order.
vectorSearchTiesReversed(queryVector, documents, limit) ==
    LET n    == Len(documents)
        sims == [i \in 1..n |-> cosineSimilarity(queryVector, documents[i].embedding)]
        bad  == {i \in 1..n : sims[i].threw}
    IN  IF bad # {}
        THEN Threw(sims[CHOOSE i \in bad : \A j \in bad : i <= j].error)
        ELSE LET results == [k \in 1..n |->
                                [similarity |-> sims[n + 1 - k].value,
                                 embedding  |-> documents[n + 1 - k].embedding,
                                 pos        |-> n + 1 - k,
                                 id         |-> documents[n + 1 - k].id,
                                 metadata   |-> documents[n + 1 - k].metadata]]
             IN  Returned(Slice(SortDesc(results, Similarity), limit))

\* documents.map(...) throws at the first record whose cosineSimilarity throws;
\* otherwise every record gets a similarity, the copy is sorted and cut.
\* `pos` is the record's index in `documents` (kept to state ordering properties).
vectorSearch(queryVector, documents, limit) ==
    LET sims == [i \in 1..Len(documents) |->
                    cosineSimilarity(queryVector, documents[i].embedding)]
        bad  == {i \in 1..Len(documents) : sims[i].threw}
    IN  IF bad # {}
        THEN Threw(sims[CHOOSE i \in bad : \A j \in bad : i <= j].error)
        ELSE LET results == [i \in 1..Len(documents) |->
                                [similarity |-> sims[i].value,
                                 embedding  |-> documents[i].embedding,
                                 pos        |-> i,
                                 id         |-> documents[i].id,
                                 metadata   |-> documents[i].metadata]]
             IN  Returned(Slice(SortDesc(results, Similarity), limit))

-----------------------------------------------------------------------------
(* sources/discord.js, sources/docs.js, sources/knowledge.js               *)

\* A buggy variant that never compares against end_date.
discordFilterOpenEnded(metadata, params) ==
    /\ ~(params.server_id # "" /\ metadata.server_id # params.server_id)
    /\ ~(params.channel_id # "" /\ metadata.channel_id # params.channel_id)
    /\ ~(params.author # "" /\ metadata.author # params.author)
    /\ ~(params.start_date # 0 /\ metadata.date < params.start_date)

\* `if (f && metadata.x !== f) continue;` for each declared filter, in order
discordFilter(metadata, params) ==
    /\ ~(params.server_id # "" /\ metadata.server_id # params.server_id)
    /\ ~(params.channel_id # "" /\ metadata.channel_id # params.channel_id)
    /\ ~(params.author # "" /\ metadata.author # params.author)
    /\ ~(params.start_date # 0 /\ metadata.date < params.start_date)
    /\ ~(params.end_date # 0 /\ metadata.date > params.end_date)

knowledgeFilter(metadata, params) ==
    /\ ~(params.cluster # "" /\ metadata.cluster # params.cluster)
    /\ ~(params.file_path # <<>> /\ ~includes(metadata.file_path, params.file_path))

docsFilter(metadata, params) ==
    /\ ~(params.file_path # <<>> /\ ~includes(metadata.file_path, params.file_path))
    /\ ~(params.category # "" /\ metadata.category # params.category)
    /\ ~(params.doc_type # "" /\ metadata.doc_type # params.doc_type)

passesFilters(s, metadata, params) ==
    CASE s = "discord"   -> discordFilter(metadata, params)
      [] s = "docs"      -> docsFilter(metadata, params)
      [] s = "knowledge" -> knowledgeFilter(metadata, params)

\* the object pushed onto filteredResults (fields that are only copied through,
\* such as time, message_id, section and chunk_index, are left out)
projectResult(s, result) ==
    LET m    == result.metadata
        base == [text |-> m.text,
                 similarity |-> result.similarity,
                 pos |-> result.pos,
                 score |-> result.similarity]
    IN  CASE s = "discord" ->
                [text |-> base.text,
                 similarity |-> base.similarity,
                 pos |-> base.pos,
                 server_id |-> m.server_id,
                 channel_id |-> m.channel_id,
                 author |-> m.author,
                 date |-> m.date,
                 score |-> base.score]
          [] s = "docs" ->
                [text |-> base.text,
                 similarity |-> base.similarity,
                 pos |-> base.pos,
                 file_path |-> m.file_path,
                 category |-> m.category,
                 doc_type |-> m.doc_type,
                 score |-> base.score]
          [] s = "knowledge" ->
                [text |-> base.text,
                 similarity |-> base.similarity,
                 pos |-> base.pos,
                 cluster |-> m.cluster,
                 file_path |-> m.file_path,
                 score |-> base.score]

\* A buggy variant without the `break`: every passing candidate is kept.
RECURSIVE filterLoopNoBreak(_, _, _, _, _)
filterLoopNoBreak(s, searchResults, i, filteredResults, params) ==
    IF i > Len(searchResults) THEN filteredResults
    ELSE IF ~passesFilters(s, searchResults[i].metadata, params)
         THEN filterLoopNoBreak(s, searchResults, i + 1, filteredResults, params)
         ELSE filterLoopNoBreak(s, searchResults, i + 1,
                                Append(filteredResults, projectResult(s, searchResults[i])),
                                params)

\* for (const result of searchResults) { filter; push; if (length >= limit) break; }
RECURSIVE filterLoop(_, _, _, _, _)
filterLoop(s, searchResults, i, filteredResults, params) ==
    IF i > Len(searchResults) THEN filteredResults
    ELSE IF ~passesFilters(s, searchResults[i].metadata, params)
         THEN filterLoop(s, searchResults, i + 1, filteredResults, params)
         ELSE LET pushed == Append(filteredResults, projectResult(s, searchResults[i]))
              IN  IF Len(pushed) >= params.limit
                  THEN pushed
                  ELSE filterLoop(s, searchResults, i + 1, pushed, params)

OrAll(v, unset) == IF v = unset THEN "all" ELSE v

filtersEcho(s, params) ==
    CASE s = "discord" ->
            [server_id  |-> OrAll(params.server_id, ""),
             channel_id |-> OrAll(params.channel_id, ""),
             author     |-> OrAll(params.author, ""),
             date_range |-> IF params.start_date # 0 /\ params.end_date # 0
                            THEN <<params.start_date, "to", params.end_date>>
                            ELSE <<"all">>]
      [] s = "docs" ->
            [file_path |-> IF params.file_path = <<>> THEN <<"all">> ELSE params.file_path,
             category  |-> OrAll(params.category, ""),
             doc_type  |-> OrAll(params.doc_type, "")]
      [] s = "knowledge" ->
            [cluster   |-> OrAll(params.cluster, ""),
             file_path |-> IF params.file_path = <<>> THEN <<"all">> ELSE params.file_path]

\* The synchronous tail of <source>SemanticSearch once `docs` and `queryVector`
\* are in hand: rank 2*limit candidates, filter, stop at limit.
semanticTail(s, docs, queryVector, params) ==
    LET searchResults == vectorSearch(queryVector, docs, params.limit * 2)
    IN  IF searchResults.threw
        THEN Threw(searchResults.error)
        ELSE LET filteredResults == filterLoop(s, searchResults.value, 1, <<>>, params)
             IN  Returned([results       |-> filteredResults,
                           query         |-> params.query,
                           total_results |-> Len(filteredResults),
                           search_type   |-> "semantic",
                           filters       |-> filtersEcho(s, params)])

\* <source>SemanticSearch(params) on a loaded collection
semanticSearch(s, docs, queryVector, params) ==
    IF params.query = <<>>
    THEN Threw("query is required")
    ELSE semanticTail(s, docs, queryVector, params)

\* fixed-point unit of semantic_weight: 1.0 is WeightScale
WeightScale == 10

\* query.toLowerCase().split(/\s+/)
keywordsOf(query) == splitWhitespace(toLowerCase(query))

\* one similarity expressed in hybrid_score units for the given query
HybridUnit(query) == WeightScale * 5 * Len(keywordsOf(query))

\* keywords.reduce((score, keyword) => score + matches, 0): the total number of
\* keyword occurrences in the lower-cased text
keywordMatches(text, keywords) ==
    SumSeq([k \in 1..Len(keywords) |-> countMatches(toLowerCase(text), keywords[k])])

\* Math.min((total / keywords.length) / 5, 1), in units of 1/(5 * keywords.length)
normalizedKeywordScore(text, keywords) ==
    Min(keywordMatches(text, keywords), 5 * Len(keywords))

\* A buggy variant with the two weights swapped.
hybridScoreSwapped(result, keywords, semantic_weight) ==
    result.similarity * (WeightScale - semantic_weight) * 5 * Len(keywords)
      + normalizedKeywordScore(result.text, keywords) * SimScale * semantic_weight

\* similarity * semantic_weight + normalizedKeywordScore * (1 - semantic_weight),
\* in units of 1/(SimScale * WeightScale * 5 * keywords.length)
hybridScore(result, keywords, semantic_weight) ==
    result.similarity * semantic_weight * 5 * Len(keywords)
      + normalizedKeywordScore(result.text, keywords) * SimScale * (WeightScale - semantic_weight)

HybridScoreOf(r) == r.hybrid_score

\* { ...result, keyword_score, hybrid_score }
withHybridScores(result, keywords, semantic_weight) ==
    [f \in (DOMAIN result) \cup {"keyword_score", "hybrid_score"} |->
        IF f = "keyword_score" THEN normalizedKeywordScore(result.text, keywords)
        ELSE IF f = "hybrid_score" THEN hybridScore(result, keywords, semantic_weight)
        ELSE result[f]]

\* The synchronous tail of <source>HybridSearch once the inner semantic search
\* (made with limit * 2) has returned `semanticResults`.
\* The map callback builds a RegExp from every keyword for every result, so
\* an invalid keyword throws as soon as there is one result.
hybridTail(s, semanticResults, params) ==
    LET keywords      == keywordsOf(params.query)
        hybridResults == [i \in 1..Len(semanticResults.results) |->
                             withHybridScores(semanticResults.results[i], keywords,
                                              params.semantic_weight)]
        sorted        == SortDesc(hybridResults, HybridScoreOf)
    IN  IF semanticResults.results # <<>> /\ \E k \in 1..Len(keywords) : invalidPattern(keywords[k])
        THEN Threw("Invalid regular expression")
        ELSE
        Returned([results       |-> Slice(sorted, params.limit),
                  query         |-> params.query,
                  total_results |-> Min(Len(sorted), params.limit),
                  search_type   |-> "hybrid",
                  filters       |-> filtersEcho(s, params),
                  weights       |-> [keyword  |-> WeightScale - params.semantic_weight,
                                     semantic |-> params.semantic_weight]])

\* <source>HybridSearch(params) on a loaded collection
hybridSearch(s, docs, queryVector, params) ==
    IF params.query = <<>>
    THEN Threw("query is required")
    ELSE LET semanticResults ==
                 semanticSearch(s, docs, queryVector,
                                [params EXCEPT !.limit = params.limit * 2])
         IN  IF semanticResults.threw
             THEN Threw(semanticResults.error)
             ELSE hybridTail(s, semanticResults.value, params)

-----------------------------------------------------------------------------
(* sources/unified.js                                                      *)

\* .then(result => (result.results || []).map(r => ({ ...r, source })))
taggedResults(s, outcome) ==
    [i \in 1..Len(outcome.value.results) |->
        [f \in (DOMAIN outcome.value.results[i]) \cup {"source"} |->
            IF f = "source" THEN s ELSE outcome.value.results[i][f]]]

\* A buggy variant with no .catch: the handler's rejection stays a rejection.
searchPromiseUncaught(s, outcome) ==
    IF outcome.threw THEN Threw(outcome.error) ELSE Returned(taggedResults(s, outcome))

\* handler(...).then(tag).catch(error => { errors[s] = error.message; return []; }):
\* the promise pushed onto searchPromises always fulfils
searchPromise(s, outcome) ==
    IF outcome.threw THEN Returned(<<>>) ELSE Returned(taggedResults(s, outcome))

\* await Promise.all(searchPromises): rejects with the first rejection, else gives
\* the fulfilled values in the order the promises were pushed, whatever order
\* they settled in.  `outcomes[s]` is how the handler of source s settled.
promiseAll(outcomes, sources) ==
    LET settled == [k \in 1..Len(SourceOrder) |->
                       IF SourceOrder[k] \in sources
                       THEN searchPromise(SourceOrder[k], outcomes[SourceOrder[k]])
                       ELSE Returned(<<>>)]
        rejected == {k \in 1..Len(SourceOrder) : settled[k].threw}
    IN  IF rejected # {}
        THEN Threw(settled[CHOOSE k \in rejected : \A j \in rejected : k <= j].error)
        ELSE Returned(Concat([k \in 1..Len(SourceOrder) |-> settled[k].value]))

\* A buggy variant that reports every source's count under the next source.
sourceCountsShifted(outcomes, sources) ==
    [s \in Sources |->
        LET from == CASE s = "discord" -> "knowledge"
                      [] s = "docs" -> "discord"
                      [] s = "knowledge" -> "docs"
        IN  IF from \in sources /\ ~outcomes[from].threw
            THEN outcomes[from].value.total_results
            ELSE 0]

\* sourceResults.<s>?.total_results || 0
sourceCounts(outcomes, sources) ==
    [s \in Sources |->
        IF s \in sources /\ ~outcomes[s].threw THEN outcomes[s].value.total_results ELSE 0]

\* errors.<s> = error.message for each handler that rejected; the empty map
\* stands for `undefined`
capturedErrors(outcomes, sources) ==
    [s \in {x \in sources : outcomes[x].threw} |-> outcomes[s].error]

unifiedSemanticJoin(outcomes, params) ==
    LET results    == promiseAll(outcomes, params.sources)
        allResults == SortDesc(results.value, Similarity)
        topResults == Slice(allResults, params.limit)
    IN  IF results.threw THEN Threw(results.error) ELSE
        Returned([results         |-> topResults,
                  query           |-> params.query,
                  total_results   |-> Len(topResults),
                  search_type     |-> "unified_semantic",
                  sources_searched |-> params.sources,
                  source_counts   |-> sourceCounts(outcomes, params.sources),
                  errors          |-> capturedErrors(outcomes, params.sources)])

\* (r.hybrid_score || r.similarity): a hybrid_score of 0 is falsy, so the
\* similarity stands in for it (brought to hybrid_score units)
hybridSortKey(r, query) ==
    IF r.hybrid_score # 0 THEN r.hybrid_score ELSE r.similarity * HybridUnit(query)

unifiedHybridJoin(outcomes, params) ==
    LET Key(r)     == hybridSortKey(r, params.query)
        results    == promiseAll(outcomes, params.sources)
        allResults == SortDesc(results.value, Key)
        topResults == Slice(allResults, params.limit)
    IN  IF results.threw THEN Threw(results.error) ELSE
        Returned([results         |-> topResults,
                  query           |-> params.query,
                  total_results   |-> Len(topResults),
                  search_type     |-> "unified_hybrid",
                  weights         |-> [keyword  |-> WeightScale - params.semantic_weight,
                                       semantic |-> params.semantic_weight],
                  sources_searched |-> params.sources,
                  source_counts   |-> sourceCounts(outcomes, params.sources),
                  errors          |-> capturedErrors(outcomes, params.sources)])

-----------------------------------------------------------------------------
(* Inputs of the sequential search models                                  *)

MaxDocs == 2          \* records over the three collections of SpecSearch
MaxAdapterDocs == 3   \* records of the one collection of SpecAdapter
MaxLimit == 2         \* largest `limit` tried

\* embeddings with whole-number norms; the provider's dimension is 2
Embeddings == {<<1, 0>>, <<4, 3>>}
Texts == {<<"b">>, <<"a", "A">>}
Tags == {"x", "y"}

\* A record of a snapshot.  One tag fills the equality-filtered field of every
\* adapter (author, cluster, category); each adapter reads its own field only.
MakeRecord(i, e, txt, tag) ==
    [embedding |-> e,
     id        |-> i,
     metadata  |-> [text |-> txt,
                    server_id |-> "s1",
                    channel_id |-> "c1",
                    author |-> tag,
                    date |-> 2,
                    cluster |-> tag,
                    file_path |-> <<"a", "b">>,
                    category |-> tag,
                    doc_type |-> "md"]]

Shapes == Embeddings \X Texts \X Tags

RECURSIVE ShapeSeqs(_, _)
ShapeSeqs(S, n) ==
    IF n = 0 THEN {<<>>}
    ELSE {Append(q, x) : q \in ShapeSeqs(S, n - 1), x \in S}

\* all collections of exactly n records, ids 1..n
Collections(n) ==
    {[i \in 1..n |-> MakeRecord(i, q[i][1], q[i][2], q[i][3])] : q \in ShapeSeqs(Shapes, n)}

\* params of a tool call; `tag` sets the equality filter each adapter reads
Params(query, limit, weight, tag, sources) ==
    [limit |-> limit,
     server_id |-> "",
     channel_id |-> "",
     author |-> tag,
     start_date |-> 0,
     end_date |-> 0,
     cluster |-> tag,
     file_path |-> <<>>,
     category |-> tag,
     doc_type |-> "",
     query |-> query,
     semantic_weight |-> weight,
     sources |-> sources]

Queries == {<<"a">>}
Weights == {0, 5, WeightScale}
TagFilters == {"", "x"}

\* the provider's embedding of a query
QueryVectors == {<<1, 0>>}

NoCall == Params(<<>>, 0, 0, "", {})

NoOutput == [result |-> Returned(<<>>), source |-> "", failing |-> {}, op |-> "none"]

-----------------------------------------------------------------------------
(* core/indexer.js and the file system: snapshots, descriptors, paths       *)

\* A path is <<directory, file name>>; <<directory, "">> is the directory itself.
KnowledgeDir == ".vector-db/knowledge"

\* getVectorDbPath(moduleId): join(kbRoot, module.vectorDb.path, 'vectors.json')
getVectorDbPath(s) == <<".vector-db/" \o s, "vectors.json">>

\* path.dirname(outputPath)
dirname(path) == <<path[1], "">>

\* the output paths an indexing run is given: the script's, and one whose file
\* name is not vectors.json
OutputPaths == {<<KnowledgeDir, "vectors.json">>, <<KnowledgeDir, "index.json">>}

\* outputPath.replace('vectors.json', 'metadata.json'): a path without that
\* substring is returned as it is
metadataPathOf(outputPath) ==
    IF outputPath[2] = "vectors.json" THEN <<outputPath[1], "metadata.json">> ELSE outputPath

Paths ==
    {getVectorDbPath(s) : s \in Sources} \cup OutputPaths
        \cup {metadataPathOf(p) : p \in OutputPaths} \cup {dirname(p) : p \in OutputPaths}

\* the text of a path, as error messages print it
PathString(path) == path[1] \o "/" \o path[2]

\* What a file holds: JSON text, kept as the value it denotes.  `type` is the
\* kind of the top-level value; `items` the elements of a top-level array;
\* indexed_at and total_vectors the fields of a descriptor object.
NoJson == [type |-> "none", items |-> <<>>, indexed_at |-> 0, total_vectors |-> 0]

\* kind: absent | dir | file.  A file opened for writing is truncated and filled
\* piecewise: until the write completes it holds a proper prefix of the text
\* (complete = FALSE).  gen is the number of the save that wrote the file.
AbsentFile == [kind |-> "absent", complete |-> TRUE, gen |-> 0, json |-> NoJson]
Directory == [kind |-> "dir", complete |-> TRUE, gen |-> 0, json |-> NoJson]
PartialFile(g) == [kind |-> "file", complete |-> FALSE, gen |-> g, json |-> NoJson]
WholeFile(g, j) == [kind |-> "file", complete |-> TRUE, gen |-> g, json |-> j]

\* an existsSync that finds every path
existsSyncAlways(files, path) == TRUE

\* fs.existsSync(path)
existsSync(files, path) == files[path].kind # "absent"

\* A record as the indexer builds it.  An optional property is a sequence of
\* length 0 (undefined) or 1: `embedding` is set on the records of this code,
\* `values` on those of older snapshots.
VectorRecord(id, e, md) == [embedding |-> <<e>>, id |-> id, metadata |-> md, values |-> <<>>]
LegacyRecord(id, e, md) == [embedding |-> <<>>, id |-> id, metadata |-> md, values |-> <<e>>]

\* JSON.stringify(vectors, null, 2): an array of the records; a property whose
\* value is undefined is left out of the text, which is how it is kept here
stringifyVectors(vs) ==
    [type |-> "array", items |-> vs, indexed_at |-> 0, total_vectors |-> 0]

\* JSON.stringify(metadata, null, 2) of the descriptor saveVectorDb builds
\* ({indexed_at, total_vectors, embedding_model, dimensions})
stringifyDescriptor(vs, now) ==
    [type |-> "object", items |-> <<>>, indexed_at |-> now, total_vectors |-> Len(vs)]

\* loadVectorDb's map callback: v.values && !v.embedding ? {...v, embedding: v.values} : v
normalizeRecord(v) ==
    IF v.values # <<>> /\ v.embedding = <<>> THEN [v EXCEPT !.embedding = v.values] ELSE v

\* loadVectorDb once readFile has returned `file`: JSON.parse(data), then
\* vectors.map(...).  A truncated text is no JSON; an object has no map().
parseVectors(file) ==
    IF file.kind # "file" THEN Threw("ENOENT: no such file or directory")
    ELSE IF ~file.complete THEN Threw("Unexpected end of JSON input")
    ELSE IF file.json.type # "array" THEN Threw("vectors.map is not a function")
    ELSE Returned([i \in 1..Len(file.json.items) |-> normalizeRecord(file.json.items[i])])

\* the message of the Error loadVectorDb throws when existsSync fails
NotFoundMessage(path) == "Vector database not found: " \o PathString(path)

\* pc: idle | mkdir | snapshot | snapshotOpen | descriptor | descriptorOpen | done | failed
NoSave == [vectors |-> <<>>, outputPath |-> <<"", "">>, gen |-> 0, pc |-> "idle"]

\* pc: idle | read | done.  via: loadVectorDb, or the adapter whose first query
\* loads.  Two fields record the disk when the call began: absent (no file at
\* the path) and after (the save that had completed on the path).
NoLoad == [result |-> Returned(<<>>),
           path |-> <<"", "">>,
           absent |-> FALSE,
           pc |-> "idle",
           via |-> "",
           after |-> 0]

\* A metadata object: every property is optional (a sequence of length 0 or 1).
Metadata(text, file_path, cluster, section, chunk_index, total_chunks, author) ==
    [text |-> text,
     author |-> author,
     cluster |-> cluster,
     file_path |-> file_path,
     section |-> section,
     chunk_index |-> chunk_index,
     total_chunks |-> total_chunks]

\* the object literal {}
EmptyObject == Metadata(<<>>, <<>>, <<>>, <<>>, <<>>, <<>>, <<>>)

\* a document handed to the indexer; id "" stands for a missing id, and the
\* optional metadata is a sequence of length 0 or 1
Document(id, text, metadata) == [text |-> text, id |-> id, metadata |-> metadata]

\* no indexing call yet.
\* op: none | indexDocuments | incrementalIndex | main;
\* pc: idle | pipeline | model | saving | done;
\* i: index of the batch being embedded; embeddings: those of its texts that
\* are back; vectors: indexDocuments' local `vectors`; progress: the objects
\* onProgress was called with.  Bookkeeping: calls (calls made),
\* generateCalls and modelCalls (invocations of generateEmbeddings and of the
\* model in this call), failedAt (1 + the batch in which the provider failed),
\* given (existingVectors as passed in), supplied (the ids callers gave to the
\* documents behind the collection).
NoJob ==
    [vectors |-> <<>>,
     i |-> 0,
     documents |-> <<>>,
     result |-> Returned(<<>>),
     op |-> "none",
     files |-> <<>>,
     pc |-> "idle",
     calls |-> 0,
     batchSize |-> 1,
     onProgress |-> FALSE,
     existingVectors |-> <<>>,
     given |-> <<>>,
     embeddings |-> <<>>,
     progress |-> <<>>,
     generateCalls |-> 0,
     modelCalls |-> 0,
     failedAt |-> 0,
     supplied |-> <<>>]

\* no chunkText call yet
NoChunk == [text |-> <<>>, op |-> "none", chunkSize |-> 0, separator |-> <<>>, chunks |-> <<>>]

\* a disk without snapshots
NoFiles == [p \in Paths |-> AbsentFile]

\* the indexing side while a search model runs
IdleIndexer ==
    /\ fs = NoFiles
    /\ save = NoSave
    /\ load = NoLoad
    /\ job = NoJob
    /\ chunked = NoChunk

\* state of the concurrent model while a sequential one runs
IdleProcess ==
    /\ disk = [s \in Sources |-> 0]
    /\ vectors = [s \in Sources |-> 0]
    /\ vectorDbPath = [s \in Sources |-> FALSE]
    /\ embedder = 0
    /\ pipelineCalls = 0
    /\ loadCalls = [s \in Sources |-> 0]
    /\ req = <<>>
    /\ call = <<>>

processVars == <<disk, vectors, vectorDbPath, embedder, pipelineCalls, loadCalls, req, call>>

CollOf(d, c, n) ==
    [s \in Sources |-> CASE s = "discord" -> d [] s = "docs" -> c [] s = "knowledge" -> n]

\* the search side while an indexing model runs
IdleSearch ==
    /\ coll = [s \in Sources |-> <<>>]
    /\ arg = NoCall
    /\ qvec = <<>>
    /\ out = NoOutput

\* three warm adapters holding at most MaxDocs records between them
InitSearch ==
    /\ IdleProcess
    /\ IdleIndexer
    /\ \E i, j, k \in 0..MaxDocs :
          /\ i + j + k <= MaxDocs
          /\ \E d \in Collections(i), c \in Collections(j), n \in Collections(k) :
                coll = CollOf(d, c, n)
    /\ arg = NoCall
    /\ qvec \in QueryVectors
    /\ out = NoOutput

\* vectorSearch(queryVector, docs, limit) on the cached collection of source s
DoVectorSearch(s, limit) ==
    /\ out.op = "none"
    /\ arg' = Params(<<>>, limit, 0, "", {})
    /\ out' = [result |-> vectorSearch(qvec, coll[s], limit),
               source |-> s,
               failing |-> {},
               op |-> "vectorSearch"]
    /\ UNCHANGED <<processVars, indexVars, coll, qvec>>

\* <s>_semantic_search.handler(params) with the adapter and the provider warm
DoSemanticSearch(s, params) ==
    /\ out.op = "none"
    /\ arg' = params
    /\ out' = [result |-> semanticSearch(s, coll[s], qvec, params),
               source |-> s,
               failing |-> {},
               op |-> "semantic"]
    /\ UNCHANGED <<processVars, indexVars, coll, qvec>>

\* <s>_hybrid_search.handler(params) with the adapter and the provider warm
DoHybridSearch(s, params) ==
    /\ out.op = "none"
    /\ arg' = params
    /\ out' = [result |-> hybridSearch(s, coll[s], qvec, params),
               source |-> s,
               failing |-> {},
               op |-> "hybrid"]
    /\ UNCHANGED <<processVars, indexVars, coll, qvec>>

\* what the unified handlers pass on: { query, limit } and, hybrid, semantic_weight
FanOutParams(params) ==
    Params(params.query, params.limit, params.semantic_weight, "", params.sources)

\* how the handler of source s settles when its adapter cannot answer: here for
\* want of a snapshot file
FailedOutcome(s) ==
    Threw(CASE s = "discord"   -> "Discord vector database not initialized. Run: npm run index-discord"
            [] s = "docs"      -> "Documentation vector database not initialized. Run: npm run index-docs"
            [] s = "knowledge" -> "Knowledge base vector database not initialized. Run: npm run index-knowledge")

\* how the per-source semantic handlers settle for a unified call, the adapters
\* in `failing` rejecting
semanticOutcomes(params, failing) ==
    [s \in Sources |->
        IF s \in failing THEN FailedOutcome(s)
        ELSE semanticSearch(s, coll[s], qvec, FanOutParams(params))]

hybridOutcomes(params, failing) ==
    [s \in Sources |->
        IF s \in failing THEN FailedOutcome(s)
        ELSE hybridSearch(s, coll[s], qvec, FanOutParams(params))]

\* unified_semantic_search.handler(params); the adapters outside `failing` warm
DoUnifiedSemantic(params, failing) ==
    /\ out.op = "none"
    /\ arg' = params
    /\ out' = [result |-> IF params.query = <<>> THEN Threw("query is required")
                          ELSE unifiedSemanticJoin(semanticOutcomes(params, failing), params),
               source |-> "",
               failing |-> failing,
               op |-> "unified_semantic"]
    /\ UNCHANGED <<processVars, indexVars, coll, qvec>>

\* unified_hybrid_search.handler(params); the adapters outside `failing` warm
DoUnifiedHybrid(params, failing) ==
    /\ out.op = "none"
    /\ arg' = params
    /\ out' = [result |-> IF params.query = <<>> THEN Threw("query is required")
                          ELSE unifiedHybridJoin(hybridOutcomes(params, failing), params),
               source |-> "",
               failing |-> failing,
               op |-> "unified_hybrid"]
    /\ UNCHANGED <<processVars, indexVars, coll, qvec>>

NextSearch ==
    \/ \E s \in Sources, l \in 0..MaxLimit : DoVectorSearch(s, l)
    \/ \E s \in Sources, q \in Queries, l \in 0..MaxLimit, tag \in TagFilters :
          DoSemanticSearch(s, Params(q, l, 0, tag, {}))
    \/ \E s \in Sources, q \in Queries, l \in 0..MaxLimit, w \in Weights, tag \in TagFilters :
          DoHybridSearch(s, Params(q, l, w, tag, {}))
    \/ \E q \in Queries, l \in 0..MaxLimit, S \in SUBSET Sources, F \in SUBSET Sources :
          F \subseteq S /\ DoUnifiedSemantic(Params(q, l, 0, "", S), F)
    \/ \E q \in Queries, l \in 0..MaxLimit, w \in Weights, S \in SUBSET Sources,
          F \in SUBSET Sources :
          F \subseteq S /\ DoUnifiedHybrid(Params(q, l, w, "", S), F)

SpecSearch == InitSearch /\ [][NextSearch]_vars

\* every adapter warm with the same at most MaxAdapterDocs records
InitAdapter ==
    /\ IdleProcess
    /\ IdleIndexer
    /\ \E n \in 0..MaxAdapterDocs : \E d \in Collections(n) : coll = CollOf(d, d, d)
    /\ arg = NoCall
    /\ qvec \in QueryVectors
    /\ out = NoOutput

NextAdapter ==
    \/ \E s \in Sources, q \in Queries, l \in 0..MaxLimit, tag \in TagFilters :
          DoSemanticSearch(s, Params(q, l, 0, tag, {}))
    \/ \E s \in Sources, q \in Queries, l \in 0..MaxLimit, w \in Weights, tag \in TagFilters :
          DoHybridSearch(s, Params(q, l, w, tag, {}))

SpecAdapter == InitAdapter /\ [][NextAdapter]_vars

\* vectorSearch alone, on records whose embeddings need not have the query's length
MaxRankDocs == 3

RankEmbeddings == {<<1, 0>>, <<4, 3>>, <<0, 0>>, <<1>>, <<3, 4, 0>>}
RankQueryVectors == {<<1, 0>>, <<0, 0>>, <<1>>}

RankCollections(n) ==
    {[i \in 1..n |-> MakeRecord(i, q[i], <<"b">>, "x")] : q \in ShapeSeqs(RankEmbeddings, n)}

InitRank ==
    /\ IdleProcess
    /\ IdleIndexer
    /\ \E n \in 0..MaxRankDocs : \E d \in RankCollections(n) : coll = CollOf(d, <<>>, <<>>)
    /\ arg = NoCall
    /\ qvec \in RankQueryVectors
    /\ out = NoOutput

NextRank == \E l \in 0..MaxLimit : DoVectorSearch("discord", l)

SpecRank == InitRank /\ [][NextRank]_vars

-----------------------------------------------------------------------------
(* Properties of the sequential models                                     *)

\* the result sequence an operation returned
ResultsOf(o) ==
    IF o.result.threw THEN <<>>
    ELSE IF o.op = "vectorSearch" THEN o.result.value
    ELSE o.result.value.results

IsPrefix(a, b) == Len(a) <= Len(b) /\ SubSeq(b, 1, Len(a)) = a

\* a hybrid result without the two fields hybrid search adds
WithoutHybridFields(r) == [f \in (DOMAIN r) \ {"keyword_score", "hybrid_score"} |-> r[f]]

TotalDocs == SumSeq([k \in 1..Len(SourceOrder) |-> Len(coll[SourceOrder[k]])])

SearchOps == {"semantic", "hybrid", "unified_semantic", "unified_hybrid"}

UnifiedOps == {"unified_semantic", "unified_hybrid"}

HealthySources == arg.sources \ out.failing

\* how the per-source handlers of the last unified call settled
OutcomesOf(o) ==
    IF o.op = "unified_hybrid" THEN hybridOutcomes(arg, o.failing)
    ELSE semanticOutcomes(arg, o.failing)

\* what the same unified call gives when only its healthy sources are requested
HealthyResponse ==
    IF out.op = "unified_hybrid"
    THEN unifiedHybridJoin(OutcomesOf(out), [arg EXCEPT !.sources = HealthySources])
    ELSE unifiedSemanticJoin(OutcomesOf(out), [arg EXCEPT !.sources = HealthySources])

\* C1: a unified search with a non-empty query returns normally whichever of the
\* requested sources fail (all of them included); errors[s] is the failure's
\* message and source_counts[s] is 0 for each failing source s; no result is
\* tagged with a failing source; source_counts, results and total_results are
\* what the healthy sources alone give: their ranked results merged, cut to limit
C1_PartialFailureTolerated ==
    (out.op \in UnifiedOps /\ arg.query # <<>>) =>
        /\ ~out.result.threw
        /\ DOMAIN out.result.value.errors = out.failing
        /\ \A s \in out.failing :
              /\ out.result.value.errors[s] = FailedOutcome(s).error
              /\ out.result.value.source_counts[s] = 0
              /\ \A i \in 1..Len(out.result.value.results) :
                    out.result.value.results[i].source # s
        /\ \A s \in HealthySources :
              out.result.value.source_counts[s] = OutcomesOf(out)[s].value.total_results
        /\ out.result.value.results = HealthyResponse.value.results
        /\ out.result.value.total_results =
              Min(arg.limit,
                  SumSeq([k \in 1..Len(SourceOrder) |->
                             IF SourceOrder[k] \in HealthySources
                             THEN OutcomesOf(out)[SourceOrder[k]].value.total_results
                             ELSE 0]))

\* a unified search in which one source failed and the results of two healthy
\* ones were merged
C1_Witness ==
    /\ out.op \in UnifiedOps
    /\ out.failing # {}
    /\ ~out.result.threw
    /\ \E i, j \in 1..Len(out.result.value.results) :
          out.result.value.results[i].source # out.result.value.results[j].source

\* C5: every per-source and unified search returns at most `limit` results
\* (and reports at most `limit` as total_results)
C5_ResultsWithinLimit ==
    (out.op \in SearchOps /\ ~out.result.threw) =>
        /\ Len(out.result.value.results) <= arg.limit
        /\ out.result.value.total_results <= arg.limit

\* a search that had more matching records than `limit` and cut them to `limit`
C5_Witness ==
    /\ out.op \in {"semantic", "unified_hybrid"}
    /\ ~out.result.threw
    /\ arg.limit >= 1
    /\ arg.author = ""
    /\ TotalDocs > arg.limit
    /\ (out.op = "semantic" => Len(coll[out.source]) > arg.limit)
    /\ Len(out.result.value.results) = arg.limit

\* C6: the merged results of a unified hybrid search are in hybrid_score order,
\* highest first
C6_UnifiedHybridSortedByHybridScore ==
    (out.op = "unified_hybrid" /\ ~out.result.threw) =>
        \A i \in 1..(Len(out.result.value.results) - 1) :
            out.result.value.results[i].hybrid_score
                >= out.result.value.results[i + 1].hybrid_score

NonIncreasing(rs, Key(_)) == \A i \in 1..(Len(rs) - 1) : Key(rs[i]) >= Key(rs[i + 1])

\* C8: vectorSearch, per-source semantic search and unified semantic search
\* return similarities that never increase along the sequence
C8_SimilarityNonIncreasing ==
    out.op \in {"vectorSearch", "semantic", "unified_semantic"} =>
        NonIncreasing(ResultsOf(out), Similarity)

\* a unified semantic search whose re-sort moved a later source's result ahead of
\* an earlier source's
C8_Witness ==
    /\ out.op = "unified_semantic"
    /\ Len(ResultsOf(out)) >= 2
    /\ ResultsOf(out)[1].source = "knowledge"
    /\ ResultsOf(out)[2].source = "discord"
    /\ ResultsOf(out)[1].similarity > ResultsOf(out)[2].similarity

SameSource(o, a, b) == o.op \in {"unified_semantic", "unified_hybrid"} => a.source = b.source

ActiveScore(o, r) == IF o.op \in {"hybrid", "unified_hybrid"} THEN r.hybrid_score ELSE r.similarity

\* C9 as stated: results with equal active score are in collection order, after
\* every operation (within one source for the unified ones)
C9_TiesInCollectionOrder ==
    out.op # "none" =>
        \A i, j \in 1..Len(ResultsOf(out)) :
            (/\ i < j
             /\ SameSource(out, ResultsOf(out)[i], ResultsOf(out)[j])
             /\ ActiveScore(out, ResultsOf(out)[i]) = ActiveScore(out, ResultsOf(out)[j]))
                => ResultsOf(out)[i].pos < ResultsOf(out)[j].pos

\* C9 amended: results with equal similarity are in collection order after
\* vectorSearch, per-source semantic search and unified semantic search (within
\* one source); after a hybrid re-sort, results with equal hybrid_score are in
\* semantic rank order: higher similarity first, collection order among equals
C9_TiesInPriorRankOrder ==
    out.op # "none" =>
        \A i, j \in 1..Len(ResultsOf(out)) :
            (/\ i < j
             /\ SameSource(out, ResultsOf(out)[i], ResultsOf(out)[j])
             /\ ActiveScore(out, ResultsOf(out)[i]) = ActiveScore(out, ResultsOf(out)[j]))
                => IF out.op \in {"hybrid", "unified_hybrid"}
                   THEN \/ ResultsOf(out)[i].similarity > ResultsOf(out)[j].similarity
                        \/ /\ ResultsOf(out)[i].similarity = ResultsOf(out)[j].similarity
                           /\ ResultsOf(out)[i].pos < ResultsOf(out)[j].pos
                   ELSE ResultsOf(out)[i].pos < ResultsOf(out)[j].pos

\* a hybrid search that returned two results of equal hybrid_score with the later
\* record of the collection first
C9_Witness ==
    /\ out.op = "hybrid"
    /\ Len(ResultsOf(out)) = 2
    /\ ResultsOf(out)[1].hybrid_score = ResultsOf(out)[2].hybrid_score
    /\ ResultsOf(out)[1].pos > ResultsOf(out)[2].pos

\* C10: vectorSearch throws whenever some record's embedding has another length
\* than the query vector, and then returns no results at all
C10_LengthMismatchThrows ==
    (/\ out.op = "vectorSearch"
     /\ \E i \in 1..Len(coll[out.source]) : Len(coll[out.source][i].embedding) # Len(qvec))
        => /\ out.result.threw
           /\ out.result.error = "Vectors must have the same length"
           /\ out.result.value = <<>>

\* vectorSearch threw on a collection whose first record matched the query's
\* length and whose later record did not
C10_Witness ==
    /\ out.op = "vectorSearch"
    /\ out.result.threw
    /\ arg.limit >= 1
    /\ Len(coll[out.source]) >= 2
    /\ Len(coll[out.source][1].embedding) = Len(qvec)
    /\ Len(coll[out.source][2].embedding) # Len(qvec)

\* the positions (indexes in the collection) of the records an operation returned
ReturnedPositions(o) == {ResultsOf(o)[k].pos : k \in 1..Len(ResultsOf(o))}

IsZeroVector(v) == \A i \in 1..Len(v) : v[i] = 0

\* C11: when vectorSearch returns, it returns exactly min(limit, |docs|) distinct
\* records of the collection, each with its cosine similarity to the query, in
\* non-increasing order of similarity; no omitted record has a strictly higher
\* similarity than a returned one; a zero-magnitude record or query gives
\* similarity 0
C11_TopKBySimilarity ==
    (out.op = "vectorSearch" /\ ~out.result.threw) =>
        LET docs == coll[out.source]
            rs   == ResultsOf(out)
            sim(i) == cosineSimilarity(qvec, docs[i].embedding).value
        IN  /\ Len(rs) = Min(arg.limit, Len(docs))
            /\ Cardinality(ReturnedPositions(out)) = Len(rs)
            /\ ReturnedPositions(out) \subseteq 1..Len(docs)
            /\ \A k \in 1..Len(rs) :
                  /\ rs[k].id = docs[rs[k].pos].id
                  /\ rs[k].embedding = docs[rs[k].pos].embedding
                  /\ rs[k].similarity = sim(rs[k].pos)
                  /\ (IsZeroVector(rs[k].embedding) \/ IsZeroVector(qvec))
                        => rs[k].similarity = 0
            /\ NonIncreasing(rs, Similarity)
            /\ \A i \in (1..Len(docs)) \ ReturnedPositions(out) :
                  /\ \A k \in 1..Len(rs) : sim(i) <= rs[k].similarity
                  /\ IsZeroVector(docs[i].embedding) => sim(i) = 0

\* three records, limit 2: the third record is returned first, then the first,
\* and the zero-magnitude second record is left out
C11_Witness ==
    /\ out.op = "vectorSearch"
    /\ ~out.result.threw
    /\ arg.limit = 2
    /\ Len(coll[out.source]) = 3
    /\ IsZeroVector(coll[out.source][2].embedding)
    /\ Len(ResultsOf(out)) = 2
    /\ ResultsOf(out)[1].pos = 3
    /\ ResultsOf(out)[2].pos = 1
    /\ ResultsOf(out)[1].similarity > ResultsOf(out)[2].similarity
    /\ ResultsOf(out)[2].similarity > 0


-----------------------------------------------------------------------------
(* The server process: concurrent tool calls on the event loop.  Every      *)
(* action runs from the completion of one I/O wait (config read, snapshot   *)
(* read, pipeline(), model()) to the start of the next; the awaits that     *)
(* only yield to the microtask queue are part of the action they follow.    *)

MaxRequests == 2    \* tool calls per run
MaxCalls == 2       \* per-source handler invocations per run
MaxVersion == 2     \* generations of a snapshot file (indexing runs)

Requests == 1..MaxRequests

\* contents of generation v of the snapshot of source s: v records
SnapshotOf(s, v) ==
    [i \in 1..v |->
        MakeRecord(i,
                   IF (s = "docs") = (i = 1) THEN <<1, 0>> ELSE <<4, 3>>,
                   IF s = "knowledge" THEN <<"a", "A">> ELSE <<"b">>,
                   "x")]

\* the sources that tool calls of a concurrent run name
ProcessSources == {"discord", "docs"}
ProcessLimits == {2}
ProcessWeights == {7}

FreeRequest == [params |-> NoCall, state |-> "free", tool |-> "", response |-> Returned(<<>>)]

\* pc: none | path | read | pipeline | embed | done
\* docs: generation of the collection the call searches;
\* model: handle of the embedder the call uses
NoHandlerCall == [docs |-> 0, outcome |-> Returned(<<>>), pc |-> "none", model |-> 0]

Init ==
    /\ disk \in {d \in [Sources -> 0..1] : \A s \in Sources \ ProcessSources : d[s] = 0}
    /\ vectors = [s \in Sources |-> 0]
    /\ vectorDbPath = [s \in Sources |-> FALSE]
    /\ embedder = 0
    /\ pipelineCalls = 0
    /\ loadCalls = [s \in Sources |-> 0]
    /\ req = [r \in Requests |-> FreeRequest]
    /\ call = [r \in Requests |-> [s \in Sources |-> NoHandlerCall]]
    /\ coll = [s \in Sources |-> <<>>]
    /\ arg = NoCall
    /\ qvec = <<1, 0>>
    /\ out = NoOutput
    /\ IdleIndexer

searchVars == <<coll, arg, qvec, out>>

IsUnified(tool) == tool \in {"unified_semantic", "unified_hybrid"}
IsHybrid(tool) == tool \in {"hybrid", "unified_hybrid"}

\* the params the handler of a source runs with
HandlerParams(r) ==
    IF IsUnified(req[r].tool) THEN FanOutParams(req[r].params) ELSE req[r].params

NotInitialized(s) == FailedOutcome(s).error

\* initializeEmbedder, reached by the n-th call of the current step: the cached
\* embedder, or a pipeline() call of its own on which it suspends
initializeEmbedder(c, n) ==
    IF embedder # 0
    THEN [c EXCEPT !.pc = "embed", !.model = embedder]
    ELSE [c EXCEPT !.pc = "pipeline", !.model = pipelineCalls + n]

\* initialize<S>Vectors from the existsSync check on: throw, or call
\* loadVectorDb, which starts readFile and suspends
beginLoad(s) ==
    IF disk[s] = 0
    THEN [NoHandlerCall EXCEPT !.pc = "done", !.outcome = Threw(NotInitialized(s))]
    ELSE [NoHandlerCall EXCEPT !.pc = "read"]

\* A buggy variant that checks for the snapshot only when it looks the path up:
\* with the path known and nothing loaded it reports the snapshot as missing.
initializeVectorsCheckedOnce(s, n) ==
    IF vectors[s] # 0 THEN initializeEmbedder([NoHandlerCall EXCEPT !.docs = vectors[s]], n)
    ELSE IF ~vectorDbPath[s] THEN [NoHandlerCall EXCEPT !.pc = "path"]
    ELSE [NoHandlerCall EXCEPT !.pc = "done", !.outcome = Threw(NotInitialized(s))]

\* initialize<S>Vectors: the cached collection (the handler goes on to embed the
\* query), or the path lookup, or the load
initializeVectors(s, n) ==
    IF vectors[s] # 0 THEN initializeEmbedder([NoHandlerCall EXCEPT !.docs = vectors[s]], n)
    ELSE IF ~vectorDbPath[s] THEN [NoHandlerCall EXCEPT !.pc = "path"]
    ELSE beginLoad(s)

\* A buggy variant that looks at the query only after the collection is there.
handlerStartUnchecked(s, params, n) == initializeVectors(s, n)

\* <source>SemanticSearch / <source>HybridSearch up to its first I/O wait
handlerStart(s, params, n) ==
    IF params.query = <<>>
    THEN [NoHandlerCall EXCEPT !.pc = "done", !.outcome = Threw("query is required")]
    ELSE initializeVectors(s, n)

CallsMade == Cardinality({<<r, s>> \in Requests \X Sources : call[r][s].pc # "none"})

FirstFree(r) == req[r].state = "free" /\ \A q \in Requests : q < r => req[q].state # "free"

\* how many of the handlers of a step went on to call pipeline()
PipelinesStarted(c) == Cardinality({s \in Sources : c[s].pc = "pipeline"})

\* a tool call on one source arrives: <s>_semantic_search or <s>_hybrid_search
StartSource(r, s, tool, params) ==
    /\ FirstFree(r)
    /\ CallsMade + 1 <= MaxCalls
    /\ LET c == handlerStart(s, params, 1)
       IN  /\ call' = [call EXCEPT ![r][s] = c]
           /\ loadCalls' = [loadCalls EXCEPT ![s] = @ + (IF c.pc = "read" THEN 1 ELSE 0)]
           /\ pipelineCalls' = pipelineCalls + (IF c.pc = "pipeline" THEN 1 ELSE 0)
    /\ req' = [req EXCEPT ![r] = [params |-> [params EXCEPT !.sources = {s}],
                                  state |-> "running",
                                  tool |-> tool,
                                  response |-> Returned(<<>>)]]
    /\ UNCHANGED <<disk, vectors, vectorDbPath, embedder, searchVars, indexVars>>

\* position of a source among the requested sources whose collection is cached
CachedRank(s, sources) ==
    Cardinality({i \in 1..Len(SourceOrder) :
                    /\ SourceOrder[i] \in sources
                    /\ vectors[SourceOrder[i]] # 0
                    /\ \E j \in i..Len(SourceOrder) : SourceOrder[j] = s})

\* unified_semantic_search / unified_hybrid_search arrives: the query check, then
\* one handler call per requested source, in the order discord, docs, knowledge
StartUnified(r, tool, params) ==
    /\ FirstFree(r)
    /\ CallsMade + Cardinality(params.sources) <= MaxCalls
    /\ IF params.query = <<>>
       THEN /\ req' = [req EXCEPT ![r] = [params |-> params,
                                          state |-> "failed",
                                          tool |-> tool,
                                          response |-> Threw("query is required")]]
            /\ UNCHANGED <<call, loadCalls, pipelineCalls>>
       ELSE LET c == [s \in Sources |->
                         IF s \in params.sources
                         THEN handlerStart(s, FanOutParams(params), CachedRank(s, params.sources))
                         ELSE NoHandlerCall]
            IN  /\ call' = [call EXCEPT ![r] = c]
                /\ loadCalls' = [s \in Sources |->
                                    loadCalls[s] + (IF c[s].pc = "read" THEN 1 ELSE 0)]
                /\ pipelineCalls' = pipelineCalls + PipelinesStarted(c)
                /\ req' = [req EXCEPT ![r] = [params |-> params,
                                              state |-> "running",
                                              tool |-> tool,
                                              response |-> Returned(<<>>)]]
    /\ UNCHANGED <<disk, vectors, vectorDbPath, embedder, searchVars, indexVars>>

\* `vectorDbPath = await getVectorDbPath(...)` resumes; existsSync; loadVectorDb
PathResolved(r, s) ==
    /\ call[r][s].pc = "path"
    /\ vectorDbPath' = [vectorDbPath EXCEPT ![s] = TRUE]
    /\ call' = [call EXCEPT ![r][s] = beginLoad(s)]
    /\ loadCalls' = [loadCalls EXCEPT ![s] = @ + (IF disk[s] = 0 THEN 0 ELSE 1)]
    /\ UNCHANGED <<disk, vectors, embedder, pipelineCalls, req, searchVars, indexVars>>

\* readFile inside loadVectorDb completes with the file's current contents;
\* `vectors = await loadVectorDb(vectorDbPath)` resumes and assigns them; the
\* handler goes on to embed the query
LoadDone(r, s) ==
    /\ call[r][s].pc = "read"
    /\ vectors' = [vectors EXCEPT ![s] = disk[s]]
    /\ LET c == initializeEmbedder([NoHandlerCall EXCEPT !.docs = disk[s]], 1)
       IN  /\ call' = [call EXCEPT ![r][s] = c]
           /\ pipelineCalls' = pipelineCalls + (IF c.pc = "pipeline" THEN 1 ELSE 0)
    /\ UNCHANGED <<disk, vectorDbPath, embedder, loadCalls, req, searchVars, indexVars>>

\* `embedder = await pipeline(...)` resumes with the handle this call created
PipelineDone(r, s) ==
    /\ call[r][s].pc = "pipeline"
    /\ embedder' = call[r][s].model
    /\ call' = [call EXCEPT ![r][s].pc = "embed"]
    /\ UNCHANGED <<disk, vectors, vectorDbPath, pipelineCalls, loadCalls, req, searchVars, indexVars>>

\* the handler's result once the query embedding is there
handlerOutcome(r, s) ==
    LET params == HandlerParams(r)
        docs   == SnapshotOf(s, call[r][s].docs)
    IN  IF IsHybrid(req[r].tool)
        THEN hybridSearch(s, docs, qvec, params)
        ELSE semanticSearch(s, docs, qvec, params)

\* `await model(text, ...)` resumes with the embedding; the rest of the handler
\* (rank, filter, hybrid re-rank) is synchronous
EmbedDone(r, s) ==
    /\ call[r][s].pc = "embed"
    /\ call' = [call EXCEPT ![r][s].pc = "done", ![r][s].outcome = handlerOutcome(r, s)]
    /\ UNCHANGED <<disk, vectors, vectorDbPath, embedder, pipelineCalls, loadCalls, req,
                   searchVars, indexVars>>

\* `await model(text, ...)` rejects: the provider failed on this query
EmbedFail(r, s) ==
    /\ call[r][s].pc = "embed"
    /\ call' = [call EXCEPT ![r][s].pc = "done",
                            ![r][s].outcome = Threw("embedding provider failed")]
    /\ UNCHANGED <<disk, vectors, vectorDbPath, embedder, pipelineCalls, loadCalls, req,
                   searchVars, indexVars>>

\* what the tool call gives its caller once every handler it started has settled
responseOf(r) ==
    LET outcomes == [s \in Sources |-> call[r][s].outcome]
    IN  CASE req[r].tool = "unified_semantic" -> unifiedSemanticJoin(outcomes, req[r].params)
          [] req[r].tool = "unified_hybrid"   -> unifiedHybridJoin(outcomes, req[r].params)
          [] OTHER -> outcomes[CHOOSE s \in req[r].params.sources : TRUE]

\* the tool call settles
Finish(r) ==
    /\ req[r].state = "running"
    /\ \A s \in req[r].params.sources : call[r][s].pc = "done"
    /\ LET resp == responseOf(r)
       IN  req' = [req EXCEPT ![r].state = IF resp.threw THEN "failed" ELSE "done",
                              ![r].response = resp]
    /\ UNCHANGED <<disk, vectors, vectorDbPath, embedder, pipelineCalls, loadCalls, call,
                   searchVars, indexVars>>

\* an indexing run (another process) writes the next generation of a snapshot
Reindex(s) ==
    /\ disk[s] < MaxVersion
    /\ disk' = [disk EXCEPT ![s] = @ + 1]
    /\ UNCHANGED <<vectors, vectorDbPath, embedder, pipelineCalls, loadCalls, req, call,
                   searchVars, indexVars>>

ProcessParams(sources) ==
    {Params(q, l, w, "", sources) : q \in Queries, l \in ProcessLimits, w \in ProcessWeights}

Next ==
    \/ \E r \in Requests, s \in ProcessSources, tool \in {"semantic", "hybrid"} :
          \E p \in ProcessParams({s}) : StartSource(r, s, tool, p)
    \/ \E r \in Requests, tool \in {"unified_semantic", "unified_hybrid"} :
          \E S \in SUBSET ProcessSources : \E p \in ProcessParams(S) : StartUnified(r, tool, p)
    \/ \E r \in Requests, s \in Sources : PathResolved(r, s)
    \/ \E r \in Requests, s \in Sources : LoadDone(r, s)
    \/ \E r \in Requests, s \in Sources : PipelineDone(r, s)
    \/ \E r \in Requests, s \in Sources : EmbedDone(r, s)
    \/ \E r \in Requests, s \in Sources : EmbedFail(r, s)
    \/ \E r \in Requests : Finish(r)
    \/ \E s \in ProcessSources : Reindex(s)

Spec == Init /\ [][Next]_vars

-----------------------------------------------------------------------------
(* Properties of the server process                                        *)

\* C2: however first-use calls of generateEmbedding interleave, pipeline() is
\* called at most once and every caller uses the same embedder handle
C2_EmbedderLoadedOnce ==
    /\ pipelineCalls <= 1
    /\ \A r1, r2 \in Requests, s1, s2 \in Sources :
          (call[r1][s1].model # 0 /\ call[r2][s2].model # 0)
              => call[r1][s1].model = call[r2][s2].model

\* C3: however first queries on one adapter interleave, loadVectorDb is called
\* at most once per adapter and every caller searches the same collection
C3_SnapshotLoadedOnce ==
    \A s \in Sources :
        /\ loadCalls[s] <= 1
        /\ \A r1, r2 \in Requests :
              (call[r1][s].docs # 0 /\ call[r2][s].docs # 0)
                  => call[r1][s].docs = call[r2][s].docs

\* C4: once an adapter's cache holds a collection, no step replaces it, also
\* when the snapshot file is rewritten
C4_CacheNeverReplaced ==
    [][\A s \in Sources : vectors[s] # 0 => vectors'[s] = vectors[s]]_vars

-----------------------------------------------------------------------------
(* The vector record store: saveVectorDb by the indexing run, loadVectorDb  *)
(* by a reader (directly, or through the first query of an adapter).  The   *)
(* two run in different processes and share the disk only.  Every action    *)
(* runs to the next I/O wait.                                               *)

MaxSaves == 2    \* saveVectorDb calls per run

StoreRecords ==
    {VectorRecord("r1", <<1, 0>>, [text |-> <<"b">>]),
     VectorRecord("r2", <<4, 3>>, [text |-> <<"a", "A">>])}

\* the collections handed to saveVectorDb: up to two records, ids distinct
StoreCollections ==
    {<<>>} \cup {<<r>> : r \in StoreRecords}
           \cup {<<r, q>> : <<r, q>> \in {pr \in StoreRecords \X StoreRecords : pr[1] # pr[2]}}

\* a snapshot written by an older version, with its descriptor
LegacyFiles ==
    [p \in Paths |->
        CASE p = dirname(getVectorDbPath("knowledge")) -> Directory
          [] p = getVectorDbPath("knowledge") ->
                WholeFile(0, stringifyVectors(<<LegacyRecord("r0", <<4, 3>>, [text |-> <<"b">>])>>))
          [] p = metadataPathOf(getVectorDbPath("knowledge")) ->
                WholeFile(0, stringifyDescriptor(<<1>>, 0))
          [] OTHER -> AbsentFile]

InitStore ==
    /\ IdleProcess
    /\ IdleSearch
    /\ fs \in {NoFiles, LegacyFiles}
    /\ save = NoSave
    /\ load = NoLoad
    /\ job = NoJob
    /\ chunked = NoChunk

storeUnchanged == <<processVars, searchVars, job, chunked>>

\* saveVectorDb(vectors, outputPath) up to its first I/O wait: mkdir when the
\* directory is missing, else writeFile(outputPath, ...)
beginSave(vs, outputPath) ==
    [vectors |-> vs,
     outputPath |-> outputPath,
     gen |-> save.gen + 1,
     pc |-> IF existsSync(fs, dirname(outputPath)) THEN "snapshot" ELSE "mkdir"]

\* a caller other than the indexing script saves a collection
SaveStart(vs, outputPath) ==
    /\ save.pc \in {"idle", "done", "failed"}
    /\ save.gen < MaxSaves
    /\ save' = beginSave(vs, outputPath)
    /\ UNCHANGED <<fs, load, storeUnchanged>>

\* `await mkdir(dir, {recursive: true})` resumes; writeFile(outputPath, ...) starts
MkdirDone ==
    /\ save.pc = "mkdir"
    /\ fs' = [fs EXCEPT ![dirname(save.outputPath)] = Directory]
    /\ save' = [save EXCEPT !.pc = "snapshot"]
    /\ UNCHANGED <<load, storeUnchanged>>

\* writeFile(outputPath, ...) has opened the file: it is truncated, and holds a
\* prefix of the text until the write completes
SnapshotOpened ==
    /\ save.pc = "snapshot"
    /\ fs' = [fs EXCEPT ![save.outputPath] = PartialFile(save.gen)]
    /\ save' = [save EXCEPT !.pc = "snapshotOpen"]
    /\ UNCHANGED <<load, storeUnchanged>>

\* `await writeFile(outputPath, JSON.stringify(vectors, null, 2))` resumes;
\* metadataPath is computed and writeFile(metadataPath, ...) starts
SnapshotWritten ==
    /\ save.pc = "snapshotOpen"
    /\ fs' = [fs EXCEPT ![save.outputPath] = WholeFile(save.gen, stringifyVectors(save.vectors))]
    /\ save' = [save EXCEPT !.pc = "descriptor"]
    /\ UNCHANGED <<load, storeUnchanged>>

\* writeFile(metadataPath, ...) has opened the file
DescriptorOpened ==
    /\ save.pc = "descriptor"
    /\ fs' = [fs EXCEPT ![metadataPathOf(save.outputPath)] = PartialFile(save.gen)]
    /\ save' = [save EXCEPT !.pc = "descriptorOpen"]
    /\ UNCHANGED <<load, storeUnchanged>>

\* `await writeFile(metadataPath, JSON.stringify(metadata, null, 2))` resumes;
\* saveVectorDb returns, and with it the script's main() if it was the caller.
\* indexed_at is the time of the save.
DescriptorWritten ==
    /\ save.pc = "descriptorOpen"
    /\ fs' = [fs EXCEPT ![metadataPathOf(save.outputPath)] =
                  WholeFile(save.gen, stringifyDescriptor(save.vectors, save.gen))]
    /\ save' = [save EXCEPT !.pc = "done"]
    /\ job' = IF job.pc = "saving" THEN [job EXCEPT !.pc = "done"] ELSE job
    /\ UNCHANGED <<load, processVars, searchVars, chunked>>

\* mkdir or a writeFile rejects (disk full, permissions), or the indexing run is
\* killed: saveVectorDb does not go on, and the disk stays as it is; the script's
\* main() catches the error and exits
SaveFail ==
    /\ save.pc \in {"mkdir", "snapshot", "snapshotOpen", "descriptor", "descriptorOpen"}
    /\ save' = [save EXCEPT !.pc = "failed"]
    /\ job' = IF job.pc = "saving"
              THEN [job EXCEPT !.pc = "done", !.result = Threw("Error during indexing")]
              ELSE job
    /\ UNCHANGED <<fs, load, processVars, searchVars, chunked>>

\* loadVectorDb(path) up to its I/O wait: the existsSync check, then readFile
loadVectorDb(files, via, path) ==
    IF ~existsSync(files, path)
    THEN [result |-> Threw(NotFoundMessage(path)),
          path |-> path,
          absent |-> TRUE,
          pc |-> "done",
          via |-> via,
          after |-> 0]
    ELSE [result |-> Returned(<<>>),
          path |-> path,
          absent |-> FALSE,
          pc |-> "read",
          via |-> via,
          after |-> 0]

\* initialize<Source>Vectors of adapter s on its first query: the path from the
\* modules config, the adapter's own existsSync check, then loadVectorDb
initializeSourceVectors(files, s) ==
    IF ~existsSync(files, getVectorDbPath(s))
    THEN [result |-> FailedOutcome(s),
          path |-> getVectorDbPath(s),
          absent |-> TRUE,
          pc |-> "done",
          via |-> s,
          after |-> 0]
    ELSE loadVectorDb(files, s, getVectorDbPath(s))

\* the number of the save that has completed on `path` and was not followed by
\* another save, 0 if there is none
CompletedSave(path) == IF save.pc = "done" /\ save.outputPath = path THEN save.gen ELSE 0

\* a reader calls loadVectorDb(path)
LoadStart(path) ==
    /\ load.pc = "idle"
    /\ load' = [loadVectorDb(fs, "loadVectorDb", path) EXCEPT
                    !.absent = (fs[path].kind = "absent"), !.after = CompletedSave(path)]
    /\ UNCHANGED <<fs, save, storeUnchanged>>

\* the first query of adapter s reaches initialize<Source>Vectors
AdapterFirstQuery(s) ==
    /\ load.pc = "idle"
    /\ load' = [initializeSourceVectors(fs, s) EXCEPT
                    !.absent = (fs[getVectorDbPath(s)].kind = "absent"),
                    !.after = CompletedSave(getVectorDbPath(s))]
    /\ UNCHANGED <<fs, save, storeUnchanged>>

\* `await readFile(vectorDbPath, 'utf-8')` resumes with what the file holds now;
\* JSON.parse, the map over the records, return
LoadRead ==
    /\ load.pc = "read"
    /\ load' = [load EXCEPT !.pc = "done", !.result = parseVectors(fs[load.path])]
    /\ UNCHANGED <<fs, save, storeUnchanged>>

NextStore ==
    \/ \E vs \in StoreCollections, path \in OutputPaths : SaveStart(vs, path)
    \/ MkdirDone
    \/ SnapshotOpened
    \/ SnapshotWritten
    \/ DescriptorOpened
    \/ DescriptorWritten
    \/ SaveFail
    \/ \E path \in OutputPaths : LoadStart(path)
    \/ \E s \in Sources : AdapterFirstQuery(s)
    \/ LoadRead

SpecStore == InitStore /\ [][NextStore]_vars

\* a load through loadVectorDb itself that began after the latest save on its
\* path had returned, and has finished
LoadedAfterSave ==
    /\ load.pc = "done"
    /\ load.via = "loadVectorDb"
    /\ save.pc = "done"
    /\ load.path = save.outputPath
    /\ load.after = save.gen

\* C12: saveVectorDb(records, path) followed by loadVectorDb(path) returns a
\* collection with the same ids, embeddings and metadata in the same order,
\* for every collection and every output path
C12_SaveLoadRoundTrip ==
    LoadedAfterSave =>
        /\ ~load.result.threw
        /\ Len(load.result.value) = Len(save.vectors)
        /\ \A i \in 1..Len(save.vectors) :
              /\ load.result.value[i].id = save.vectors[i].id
              /\ load.result.value[i].embedding = save.vectors[i].embedding
              /\ load.result.value[i].metadata = save.vectors[i].metadata

\* the output paths whose descriptor is a sibling file
SnapshotPaths == {p \in OutputPaths : metadataPathOf(p) # p}

\* C13: at a snapshot path there is never a partially written snapshot, nor a
\* snapshot of a save without the descriptor of the same save beside it, and
\* no loadVectorDb reads a truncated snapshot
C13_SnapshotPublishedAtomically ==
    /\ \A p \in SnapshotPaths :
          fs[p].kind = "file" =>
              /\ fs[p].complete
              /\ fs[metadataPathOf(p)].kind = "file"
              /\ fs[metadataPathOf(p)].complete
              /\ fs[metadataPathOf(p)].gen = fs[p].gen
    /\ (load.pc = "done" /\ load.path \in SnapshotPaths)
          => load.result.error # "Unexpected end of JSON input"

\* the messages that tell which indexing command to run
NamesRemediation(msg) ==
    msg \in {"Discord vector database not initialized. Run: npm run index-discord",
             "Documentation vector database not initialized. Run: npm run index-docs",
             "Knowledge base vector database not initialized. Run: npm run index-knowledge"}

\* a load that found no file at its path
AbsentSnapshotLoad == load.pc = "done" /\ load.absent

\* C14 as stated: every load of an absent snapshot, by loadVectorDb itself or by
\* an adapter's first query, fails with an error that names the remediation
C14_AbsentSnapshotNamesRemediation ==
    AbsentSnapshotLoad => (load.result.threw /\ NamesRemediation(load.result.error))

\* C14: a load of an absent snapshot always fails; through an adapter's first
\* query the error names the indexing command to run, from loadVectorDb itself
\* it is "Vector database not found: <path>", which names the path only
C14_AbsentSnapshotFails ==
    AbsentSnapshotLoad =>
        /\ load.result.threw
        /\ load.result.value = <<>>
        /\ load.via \in Sources => NamesRemediation(load.result.error)
        /\ load.via = "knowledge" => load.result.error = FailedOutcome("knowledge").error
        /\ load.via = "loadVectorDb" =>
              /\ load.result.error \in
                    {"Vector database not found: .vector-db/knowledge/vectors.json",
                     "Vector database not found: .vector-db/knowledge/index.json"}
              /\ ~NamesRemediation(load.result.error)

\* loadVectorDb itself was called on a path that holds no file
C14_Witness ==
    /\ AbsentSnapshotLoad
    /\ load.via = "loadVectorDb"
    /\ load.path = <<KnowledgeDir, "vectors.json">>
    /\ load.result.threw

-----------------------------------------------------------------------------
(* core/indexer.js: chunkText.  The chunkOverlap option is read and never   *)
(* used, so it is no parameter here.                                        *)

\* String.prototype.trim
RECURSIVE trimStart(_)
trimStart(str) == IF str # <<>> /\ IsSpace(Head(str)) THEN trimStart(Tail(str)) ELSE str

RECURSIVE trimEnd(_)
trimEnd(str) ==
    IF str # <<>> /\ IsSpace(str[Len(str)]) THEN trimEnd(SubSeq(str, 1, Len(str) - 1)) ELSE str

trim(str) == trimEnd(trimStart(str))

StartsWith(str, prefix) ==
    Len(str) >= Len(prefix) /\ SubSeq(str, 1, Len(prefix)) = prefix

\* text.split(separator) for a non-empty string separator: cut at the leftmost
\* non-overlapping occurrences; `cur` is the section collected so far
RECURSIVE splitOn(_, _, _)
splitOn(str, separator, cur) ==
    IF str = <<>> THEN <<cur>>
    ELSE IF StartsWith(str, separator)
         THEN <<cur>> \o splitOn(SubSeq(str, Len(separator) + 1, Len(str)), separator, <<>>)
         ELSE splitOn(Tail(str), separator, Append(cur, Head(str)))

\* String.prototype.split(separator); the empty separator cuts between characters
split(str, separator) ==
    IF separator = <<>> THEN [i \in 1..Len(str) |-> <<str[i]>>]
    ELSE splitOn(str, separator, <<>>)

IsTerminator(c) == c \in {".", "!", "?"}

\* length of the longest prefix of str whose characters are (are not) terminators
RECURSIVE runLength(_, _)
runLength(str, terminators) ==
    IF str # <<>> /\ (IsTerminator(Head(str)) = terminators)
    THEN 1 + runLength(Tail(str), terminators)
    ELSE 0

\* section.match(/[^.!?]+[.!?]+/g): every maximal run of non-terminators that
\* is followed by a terminator, with all the terminators that follow it.
\* Terminators no such run precedes and text after the last terminator are in
\* no match.
RECURSIVE matchSentences(_)
matchSentences(str) ==
    LET rest == SubSeq(str, runLength(str, TRUE) + 1, Len(str))
        n    == runLength(rest, FALSE)
        m    == runLength(SubSeq(rest, n + 1, Len(rest)), TRUE)
    IN  IF rest = <<>> \/ m = 0 THEN <<>>
        ELSE <<SubSeq(rest, 1, n + m)>> \o matchSentences(SubSeq(rest, n + m + 1, Len(rest)))

\* section.match(...) || [section]
sentencesOf(section) ==
    IF matchSentences(section) = <<>> THEN <<section>> ELSE matchSentences(section)

\* a join that leaves the separator out
appendSectionBare(currentChunk, separator, section) == currentChunk \o section

\* currentChunk += (currentChunk ? separator : '') + section
appendSection(currentChunk, separator, section) ==
    currentChunk \o (IF currentChunk # <<>> THEN separator ELSE <<>>) \o section

\* if (currentChunk) chunks.push(currentChunk.trim())
pushChunk(chunks, currentChunk) ==
    IF currentChunk # <<>> THEN Append(chunks, trim(currentChunk)) ELSE chunks

\* the loop over the sentences of a section longer than chunkSize
RECURSIVE sentenceLoop(_, _, _)
sentenceLoop(st, sentences, chunkSize) ==
    IF sentences = <<>> THEN st
    ELSE LET sentence == Head(sentences)
         IN  sentenceLoop(
                 IF Len(st.currentChunk) + Len(sentence) > chunkSize
                 THEN [chunks |-> pushChunk(st.chunks, st.currentChunk), currentChunk |-> sentence]
                 ELSE [chunks |-> st.chunks, currentChunk |-> st.currentChunk \o sentence],
                 Tail(sentences), chunkSize)

\* the loop over the sections
RECURSIVE sectionLoop(_, _, _, _)
sectionLoop(st, sections, chunkSize, separator) ==
    IF sections = <<>> THEN st
    ELSE LET section == Head(sections)
         IN  sectionLoop(
                 IF Len(section) > chunkSize
                 THEN sentenceLoop([chunks |-> pushChunk(st.chunks, st.currentChunk),
                                    currentChunk |-> <<>>],
                                   sentencesOf(section), chunkSize)
                 ELSE IF Len(st.currentChunk) + Len(section) > chunkSize
                      THEN [chunks |-> Append(st.chunks, trim(st.currentChunk)),
                            currentChunk |-> section]
                      ELSE [chunks |-> st.chunks,
                            currentChunk |-> appendSection(st.currentChunk, separator, section)],
                 Tail(sections), chunkSize, separator)

\* chunks.filter(chunk => chunk.length > 0)
RECURSIVE nonEmptyChunks(_)
nonEmptyChunks(chunks) ==
    IF chunks = <<>> THEN <<>>
    ELSE (IF Head(chunks) # <<>> THEN <<Head(chunks)>> ELSE <<>>) \o nonEmptyChunks(Tail(chunks))

\* chunkText(text, {chunkSize, separator})
chunkText(text, chunkSize, separator) ==
    LET st == sectionLoop([chunks |-> <<>>, currentChunk |-> <<>>],
                          split(text, separator), chunkSize, separator)
    IN  nonEmptyChunks(pushChunk(st.chunks, st.currentChunk))

MaxTextLen == 5    \* longest text chunked

ChunkAlphabet == {"a", " ", ".", "\n", "|"}

ChunkTexts == UNION {ShapeSeqs(ChunkAlphabet, n) : n \in 0..MaxTextLen}

ChunkSizes == 1..(MaxTextLen + 1)

\* the default separator, a separator that is no whitespace, and the empty one
Separators == {<<"\n", "\n">>, <<"|">>, <<>>}

InitChunk ==
    /\ IdleProcess
    /\ IdleSearch
    /\ fs = NoFiles
    /\ save = NoSave
    /\ load = NoLoad
    /\ job = NoJob
    /\ \E text \in ChunkTexts, chunkSize \in ChunkSizes, separator \in Separators :
          chunked = [text |-> text,
                     op |-> "none",
                     chunkSize |-> chunkSize,
                     separator |-> separator,
                     chunks |-> <<>>]

\* chunkText(text, {chunkSize, separator}) is called and returns
DoChunkText ==
    /\ chunked.op = "none"
    /\ chunked' = [chunked EXCEPT
                      !.op = "chunkText",
                      !.chunks = chunkText(chunked.text, chunked.chunkSize, chunked.separator)]
    /\ UNCHANGED <<processVars, searchVars, fs, save, load, job>>

NextChunk == DoChunkText

SpecChunk == InitChunk /\ [][NextChunk]_vars

\* str without the occurrences of the separator it begins with
RECURSIVE withoutLeadingSeparators(_, _)
withoutLeadingSeparators(str, separator) ==
    IF separator # <<>> /\ StartsWith(str, separator)
    THEN withoutLeadingSeparators(SubSeq(str, Len(separator) + 1, Len(str)), separator)
    ELSE str

\* str without its leading and trailing whitespace
Stripped(str) ==
    LET keep == {i \in 1..Len(str) : ~IsSpace(str[i])}
    IN  IF keep = {} THEN <<>>
        ELSE SubSeq(str, CHOOSE i \in keep : \A j \in keep : i <= j,
                         CHOOSE i \in keep : \A j \in keep : i >= j)

\* C15 as stated: empty input gives no chunk; an input shorter than chunkSize
\* gives exactly one chunk, the trimmed input, whatever the separator
C15_ShortInputIsOneTrimmedChunk ==
    chunked.op = "chunkText" =>
        /\ chunked.text = <<>> => chunked.chunks = <<>>
        /\ (chunked.text # <<>> /\ Len(chunked.text) < chunked.chunkSize)
              => chunked.chunks = <<Stripped(chunked.text)>>

\* C15: empty input gives no chunk; an input shorter than chunkSize gives at
\* most one chunk: the input without the separators it begins with, trimmed,
\* or no chunk when nothing is left of it; with a whitespace separator that is
\* the trimmed input
C15_ShortInputIsAtMostOneChunk ==
    chunked.op = "chunkText" =>
        /\ chunked.text = <<>> => chunked.chunks = <<>>
        /\ Len(chunked.text) < chunked.chunkSize =>
              LET body == Stripped(withoutLeadingSeparators(chunked.text, chunked.separator))
              IN  /\ chunked.chunks = IF body = <<>> THEN <<>> ELSE <<body>>
                  /\ (\A i \in 1..Len(chunked.separator) : IsSpace(chunked.separator[i]))
                        => body = Stripped(chunked.text)

\* a short text of two sections around the default separator came back as one
\* chunk, trimmed
C15_Witness ==
    /\ chunked.op = "chunkText"
    /\ chunked.text = <<" ", "a", "\n", "\n", "a">>
    /\ chunked.chunkSize = 6
    /\ chunked.separator = <<"\n", "\n">>
    /\ chunked.chunks = <<(<<"a", "\n", "\n", "a">>)>>

\* C16: every chunk chunkText returns is at most chunkSize long
C16_ChunksWithinSize ==
    chunked.op = "chunkText" =>
        \A k \in 1..Len(chunked.chunks) : Len(chunked.chunks[k]) <= chunked.chunkSize

-----------------------------------------------------------------------------
(* core/indexer.js: indexDocuments and incrementalIndex; core/embeddings.js: *)
(* generateEmbeddings; scripts/index-knowledge.js: main.  Every action runs  *)
(* to the next wait on the provider (pipeline(), model()) or on the disk.    *)

DefaultBatchSize == 10    \* `batchSize = 10`, also what the script passes
ScriptChunkSize == 3      \* stands for the script's chunkSize: 1000
MaxIndexDocs == 3         \* documents per indexDocuments call
MaxNewDocs == 2           \* documents per incrementalIndex call
MaxIndexCalls == 2        \* calls per run
MaxFiles == 2             \* knowledge files the script finds

\* Array.from(embedding.data) for model(text, ...): the provider's vector for a
\* text, here told by the text's first character
ProviderEmbedding(text) == IF text # <<>> /\ Head(text) = "a" THEN <<1, 0>> ELSE <<4, 3>>

CallerMetadata == Metadata(<<>>, <<>>, <<>>, <<>>, <<>>, <<>>, <<"x">>)

\* documents of callers: without id and metadata, without id, with both, and
\* with an id of the form the indexer generates
DocumentShapes ==
    {Document("", <<"a">>, <<>>),
     Document("", <<"b">>, <<CallerMetadata>>),
     Document("k1", <<"a", "\n", "\n", "b", "b", "b">>, <<CallerMetadata>>),
     Document("doc_1", <<"a">>, <<>>)}

DocumentLists(n) == UNION {ShapeSeqs(DocumentShapes, k) : k \in 0..n}

BatchSizes == 1..MaxIndexDocs

\* contents of knowledge files: one paragraph, blank, two paragraphs
FileContents == {<<"a">>, <<" ">>, <<"a", "\n", "\n", "b", "b", "b">>}

\* what readKnowledgeFiles finds: files by relative path, with their contents
FileLists ==
    UNION {{[k \in 1..n |-> [path |-> "context/f" \o ToString(k) \o ".md", content |-> q[k]]] :
                q \in ShapeSeqs(FileContents, n)} : n \in 0..MaxFiles}

\* processKnowledgeFiles, one file: skipped when blank, else one document per chunk
documentsOfFile(file) ==
    IF trim(file.content) = <<>> THEN <<>>
    ELSE LET chunks == chunkText(file.content, ScriptChunkSize, <<"\n", "\n">>)
         IN  [k \in 1..Len(chunks) |->
                 Document(file.path \o "_chunk_" \o ToString(k - 1),
                          chunks[k],
                          <<Metadata(<<chunks[k]>>, <<file.path>>, <<"general">>,
                                     <<"Introduction">>, <<k - 1>>, <<Len(chunks)>>, <<>>)>>)]

RECURSIVE processKnowledgeFiles(_)
processKnowledgeFiles(files) ==
    IF files = <<>> THEN <<>>
    ELSE documentsOfFile(Head(files)) \o processKnowledgeFiles(Tail(files))

\* Math.ceil(n / d)
CeilDiv(n, d) == (n + d - 1) \div d

\* start, end and batch of the i-th pass of indexDocuments' loop
batchStart(j) == j.i * j.batchSize
batchEnd(j) == Min(batchStart(j) + j.batchSize, Len(j.documents))
batchOf(j) == SubSeq(j.documents, batchStart(j) + 1, batchEnd(j))

\* Math.round((end / documents.length) * 100)
percentage(current, total) == (200 * current + total) \div (2 * total)

\* records that take no metadata from their documents
recordsOfBatchBare(batch, embeddings, start) ==
    [k \in 1..Len(batch) |->
        VectorRecord(IF batch[k].id # "" THEN batch[k].id ELSE "doc_" \o ToString(start + k - 1),
                     embeddings[k],
                     EmptyObject)]

\* the records indexDocuments pushes for a batch:
\* {id: batch[j].id || `doc_${start + j}`, embedding: embeddings[j], metadata: batch[j].metadata || {}}
recordsOfBatch(batch, embeddings, start) ==
    [k \in 1..Len(batch) |->
        VectorRecord(IF batch[k].id # "" THEN batch[k].id ELSE "doc_" \o ToString(start + k - 1),
                     embeddings[k],
                     IF batch[k].metadata # <<>> THEN batch[k].metadata[1] ELSE EmptyObject)]

\* generateEmbeddings(texts) up to its first wait: initializeEmbedder returns the
\* cached embedder and the model is invoked on the first text, or pipeline() is
\* awaited first
generateEmbeddings(j, warm) ==
    IF warm
    THEN [j EXCEPT !.pc = "model", !.embeddings = <<>>,
                   !.generateCalls = @ + 1, !.modelCalls = @ + 1]
    ELSE [j EXCEPT !.pc = "pipeline", !.embeddings = <<>>, !.generateCalls = @ + 1]

\* indexDocuments returns its vectors to its caller: to the caller of
\* indexDocuments, to incrementalIndex (which returns [...existingVectors,
\* ...newVectors]), or to main (which goes on to saveVectorDb)
indexDocumentsReturns(j) ==
    CASE j.op = "indexDocuments" -> [j EXCEPT !.pc = "done", !.result = Returned(j.vectors)]
      [] j.op = "incrementalIndex" ->
            [j EXCEPT !.pc = "done", !.result = Returned(j.existingVectors \o j.vectors)]
      [] j.op = "main" -> [j EXCEPT !.pc = "saving"]

\* the head of indexDocuments' loop: the next batch, or the return
indexDocumentsLoop(j, warm) ==
    IF j.i < CeilDiv(Len(j.documents), j.batchSize)
    THEN generateEmbeddings(j, warm)
    ELSE indexDocumentsReturns(j)

\* the rest of a pass once the embeddings of the batch are there: the records
\* are pushed and onProgress, if given, is called
batchDone(j) ==
    [j EXCEPT !.vectors = @ \o recordsOfBatch(batchOf(j), j.embeddings, batchStart(j)),
              !.progress = IF j.onProgress
                           THEN Append(@, [percentage |-> percentage(batchEnd(j), Len(j.documents)),
                                           current |-> batchEnd(j),
                                           total |-> Len(j.documents)])
                           ELSE @,
              !.i = @ + 1]

\* `await model(text, ...)` resumes inside generateEmbeddings: the model is
\* invoked on the next text of the batch, or the batch is complete
modelReturns(j) ==
    LET batch == batchOf(j)
        got   == Append(j.embeddings, ProviderEmbedding(batch[Len(j.embeddings) + 1].text))
    IN  IF Len(got) < Len(batch)
        THEN [j EXCEPT !.embeddings = got, !.modelCalls = @ + 1]
        ELSE indexDocumentsLoop(batchDone([j EXCEPT !.embeddings = got]), TRUE)

\* a call that swallows the provider's error and returns what it has
rejectedKeepingVectors(j) ==
    [j EXCEPT !.pc = "done", !.failedAt = j.i + 1, !.result = Returned(j.vectors)]

\* pipeline() or model() rejects: no try/catch in generateEmbeddings,
\* indexDocuments or incrementalIndex, so the call rejects; main() catches the
\* error, logs it and exits
rejected(j) ==
    [j EXCEPT !.pc = "done", !.failedAt = j.i + 1, !.result = Threw("embedding provider failed")]

\* the ids the callers gave
RECURSIVE suppliedIds(_)
suppliedIds(documents) ==
    IF documents = <<>> THEN <<>>
    ELSE (IF Head(documents).id # "" THEN <<Head(documents).id>> ELSE <<>>)
             \o suppliedIds(Tail(documents))

InitIndex ==
    /\ IdleProcess
    /\ IdleSearch
    /\ fs \in {NoFiles, LegacyFiles}
    /\ save = NoSave
    /\ load = NoLoad
    /\ job = NoJob
    /\ chunked = NoChunk

indexUnchanged == <<disk, vectors, vectorDbPath, loadCalls, req, call, searchVars, load, chunked>>

\* indexDocuments(documents, {batchSize, onProgress}) up to its first wait
StartIndexDocuments(documents, batchSize, onProgress) ==
    /\ job.pc = "idle"
    /\ job' = indexDocumentsLoop([NoJob EXCEPT !.op = "indexDocuments",
                                               !.calls = 1,
                                               !.documents = documents,
                                               !.batchSize = batchSize,
                                               !.onProgress = onProgress,
                                               !.supplied = suppliedIds(documents)],
                                 embedder # 0)
    /\ pipelineCalls' = pipelineCalls + (IF job'.pc = "pipeline" THEN 1 ELSE 0)
    /\ UNCHANGED <<embedder, fs, save, indexUnchanged>>

\* incrementalIndex(existingVectors, newDocuments) up to its first wait; the
\* existing vectors are those the previous call returned, if any
StartIncrementalIndex(newDocuments) ==
    /\ job.pc \in {"idle", "done"}
    /\ job.op # "main"
    /\ job.calls < MaxIndexCalls
    /\ job' = indexDocumentsLoop([NoJob EXCEPT !.op = "incrementalIndex",
                                               !.calls = job.calls + 1,
                                               !.documents = newDocuments,
                                               !.batchSize = DefaultBatchSize,
                                               !.existingVectors = job.result.value,
                                               !.given = job.result.value,
                                               !.supplied = (IF job.result.threw THEN <<>>
                                                             ELSE job.supplied)
                                                                \o suppliedIds(newDocuments)],
                                 embedder # 0)
    /\ pipelineCalls' = pipelineCalls + (IF job'.pc = "pipeline" THEN 1 ELSE 0)
    /\ UNCHANGED <<embedder, fs, save, indexUnchanged>>

\* main() of the script up to its first wait on the provider: the files are
\* read and chunked into documents; without files or documents it exits
StartMain(files) ==
    /\ job.pc = "idle"
    /\ LET documents == processKnowledgeFiles(files)
           j == [NoJob EXCEPT !.op = "main",
                              !.calls = 1,
                              !.files = files,
                              !.documents = documents,
                              !.batchSize = DefaultBatchSize,
                              !.onProgress = TRUE,
                              !.supplied = suppliedIds(documents)]
       IN  job' = IF files = <<>>
                  THEN [j EXCEPT !.pc = "done", !.result = Threw("No knowledge base files found!")]
                  ELSE IF documents = <<>>
                       THEN [j EXCEPT !.pc = "done", !.result = Threw("No documents to index!")]
                       ELSE indexDocumentsLoop(j, embedder # 0)
    /\ pipelineCalls' = pipelineCalls + (IF job'.pc = "pipeline" THEN 1 ELSE 0)
    /\ UNCHANGED <<embedder, fs, save, indexUnchanged>>

\* `embedder = await pipeline(...)` resumes; the model is invoked on the first text
IndexPipelineDone ==
    /\ job.pc = "pipeline"
    /\ embedder' = pipelineCalls
    /\ job' = [job EXCEPT !.pc = "model", !.modelCalls = @ + 1]
    /\ UNCHANGED <<pipelineCalls, fs, save, indexUnchanged>>

\* `await model(text, ...)` resumes with the embedding; when it was the last of
\* the last batch, the caller of indexDocuments runs on to its own next wait
ModelDone ==
    /\ job.pc = "model"
    /\ job' = modelReturns(job)
    /\ save' = IF job'.pc = "saving"
               THEN beginSave(job'.vectors, <<KnowledgeDir, "vectors.json">>)
               ELSE save
    /\ UNCHANGED <<embedder, pipelineCalls, fs, indexUnchanged>>

\* the embedding provider fails: pipeline() or model() rejects
ProviderFail ==
    /\ job.pc \in {"pipeline", "model"}
    /\ job' = rejected(job)
    /\ UNCHANGED <<embedder, pipelineCalls, fs, save, indexUnchanged>>

NextIndex ==
    \/ \E documents \in DocumentLists(MaxIndexDocs), batchSize \in BatchSizes,
          onProgress \in BOOLEAN : StartIndexDocuments(documents, batchSize, onProgress)
    \/ \E newDocuments \in DocumentLists(MaxNewDocs) : StartIncrementalIndex(newDocuments)
    \/ \E files \in FileLists : StartMain(files)
    \/ IndexPipelineDone
    \/ ModelDone
    \/ ProviderFail
    \/ MkdirDone
    \/ SnapshotOpened
    \/ SnapshotWritten
    \/ DescriptorOpened
    \/ DescriptorWritten
    \/ SaveFail

SpecIndex == InitIndex /\ [][NextIndex]_vars

\* an indexing call that has returned to its caller
IndexingReturned == job.pc = "done" /\ ~job.result.threw /\ job.op # "none"

\* what the document of a record gave as metadata
GivenMetadata(document) ==
    IF document.metadata = <<>> THEN EmptyObject ELSE document.metadata[1]

\* the chunks of the texts of a sequence of documents, in order
ChunksOfDocuments(documents) ==
    Concat([k \in 1..Len(documents) |->
               chunkText(documents[k].text, ScriptChunkSize, <<"\n", "\n">>)])

C18_OneModelCallPerBatch ==
    IndexingReturned =>
        LET n == Len(job.documents)
            b == CeilDiv(n, job.batchSize)
        IN  /\ job.modelCalls = b
            /\ job.onProgress =>
                  /\ Len(job.progress) = b
                  /\ \A k \in 1..b :
                        /\ job.progress[k].current = Min(k * job.batchSize, n)
                        /\ job.progress[k].total = n
                  /\ b > 0 => job.progress[b].current = n

\* C19: a call in which the provider failed rejects and returns no records;
\* onProgress was called for the batches before the failing one only; the
\* script has not called saveVectorDb and the disk is as it was;
\* incrementalIndex's existingVectors are as they were passed in
C19_ProviderFailureAborts ==
    (job.pc = "done" /\ job.failedAt # 0) =>
        /\ job.result.threw
        /\ job.result.value = <<>>
        /\ Len(job.progress) = IF job.onProgress THEN job.failedAt - 1 ELSE 0
        /\ \A k \in 1..Len(job.progress) :
              job.progress[k].current <= (job.failedAt - 1) * job.batchSize
        /\ job.op = "main" => (save = NoSave /\ fs \in {NoFiles, LegacyFiles})
        /\ job.op = "incrementalIndex" => job.existingVectors = job.given

\* the provider failed in the second batch of an indexDocuments call, after
\* onProgress had reported the first batch and its records had been pushed
C19_Witness ==
    /\ job.pc = "done"
    /\ job.op = "indexDocuments"
    /\ job.failedAt = 2
    /\ job.onProgress
    /\ Len(job.progress) = 1
    /\ Len(job.vectors) >= 1
    /\ job.result.threw

Distinct(ids) == \A a, b \in 1..Len(ids) : a # b => ids[a] # ids[b]

\* C20: when the ids the callers gave are pairwise distinct, the ids of the
\* collection a call of indexDocuments or incrementalIndex returns are
\* pairwise distinct
C20_IdsUnique ==
    (IndexingReturned /\ job.op \in {"indexDocuments", "incrementalIndex"}
        /\ Distinct(job.supplied))
        => Distinct([k \in 1..Len(job.result.value) |-> job.result.value[k].id])

-----------------------------------------------------------------------------
(* The adapters' filters, every one of them supplied or not                 *)

MaxFilterDocs == 3    \* records of the one collection of SpecFilter

\* the metadata that passes every filter value of FilterValues
PassingMetadata ==
    [text |-> <<"a">>,
     server_id |-> "s1",
     channel_id |-> "c1",
     author |-> "x",
     date |-> 2,
     cluster |-> "x",
     file_path |-> <<"a", "b">>,
     category |-> "x",
     doc_type |-> "md"]

\* PassingMetadata and its variants that miss one filter value each
FilterProfiles ==
    {PassingMetadata,
     [PassingMetadata EXCEPT !.server_id = "s2", !.file_path = <<"b">>],
     [PassingMetadata EXCEPT !.channel_id = "c2", !.doc_type = "txt"],
     [PassingMetadata EXCEPT !.author = "y", !.cluster = "y", !.category = "y"],
     [PassingMetadata EXCEPT !.date = 1],
     [PassingMetadata EXCEPT !.date = 3]}

FilterShapes == Embeddings \X FilterProfiles

FilterCollections(n) ==
    {[i \in 1..n |-> [embedding |-> q[i][1], id |-> i, metadata |-> q[i][2]]] :
        q \in ShapeSeqs(FilterShapes, n)}

\* the filter properties each adapter destructures from params
FilterNames(s) ==
    CASE s = "discord"   -> {"server_id", "channel_id", "author", "start_date", "end_date"}
      [] s = "docs"      -> {"file_path", "category", "doc_type"}
      [] s = "knowledge" -> {"cluster", "file_path"}

\* params of a per-source call that supplies exactly the filters named in `on`
FilterParams(query, limit, weight, on) ==
    [limit |-> limit,
     server_id |-> IF "server_id" \in on THEN "s1" ELSE "",
     channel_id |-> IF "channel_id" \in on THEN "c1" ELSE "",
     author |-> IF "author" \in on THEN "x" ELSE "",
     start_date |-> IF "start_date" \in on THEN 2 ELSE 0,
     end_date |-> IF "end_date" \in on THEN 2 ELSE 0,
     cluster |-> IF "cluster" \in on THEN "x" ELSE "",
     file_path |-> IF "file_path" \in on THEN <<"a">> ELSE <<>>,
     category |-> IF "category" \in on THEN "x" ELSE "",
     doc_type |-> IF "doc_type" \in on THEN "md" ELSE "",
     query |-> query,
     semantic_weight |-> weight,
     sources |-> {}]

\* every adapter warm with the same at most MaxFilterDocs records
InitFilter ==
    /\ IdleProcess
    /\ IdleIndexer
    /\ \E n \in 0..MaxFilterDocs : \E d \in FilterCollections(n) : coll = CollOf(d, d, d)
    /\ arg = NoCall
    /\ qvec \in QueryVectors
    /\ out = NoOutput

NextFilter ==
    \/ \E s \in Sources, q \in Queries, l \in 1..MaxLimit :
          \E on \in SUBSET FilterNames(s) : DoSemanticSearch(s, FilterParams(q, l, 0, on))
    \/ \E s \in Sources, q \in Queries, l \in 1..MaxLimit :
          \E on \in SUBSET FilterNames(s) : DoHybridSearch(s, FilterParams(q, l, 5, on))

SpecFilter == InitFilter /\ [][NextFilter]_vars

\* the filters of adapter s that the call in `arg` supplied
Supplied(s) ==
    {f \in FilterNames(s) : arg[f] # (CASE f \in {"start_date", "end_date"} -> 0
                                        [] f = "file_path" -> <<>>
                                        [] OTHER -> "")}

\* result r meets the supplied filter f
Meets(r, f) ==
    CASE f = "start_date" -> r.date >= arg.start_date
      [] f = "end_date"   -> r.date <= arg.end_date
      [] f = "file_path"  -> \E i \in 1..(Len(r.file_path) - Len(arg.file_path) + 1) :
                                SubSeq(r.file_path, i, i + Len(arg.file_path) - 1) = arg.file_path
      [] OTHER            -> r[f] = arg[f]

\* the candidate ranking the filter loop walks: the collection by similarity
\* to the query, best first
CandidateRank(s, limit) == vectorSearch(qvec, coll[s], limit * 2).value

\* rank of the record at collection position p among the candidates
RankOf(cands, p) == CHOOSE i \in 1..Len(cands) : cands[i].pos = p

FilteredOps == {"semantic", "hybrid"}

Unset(f) ==
    CASE f \in {"start_date", "end_date"} -> 0
      [] f = "file_path" -> <<>>
      [] OTHER -> ""

\* the filters echo renders filter f as "all"
EchoedAsAll(echo, f) ==
    CASE f \in {"start_date", "end_date"} -> Len(echo.date_range) = 1
      [] f = "file_path" -> echo.file_path = <<"all">>
      [] OTHER -> echo[f] = "all"

\* the filters echo shows the value params supplied for filter f
EchoedValue(echo, f) ==
    CASE f = "start_date" -> Len(echo.date_range) = 3 /\ echo.date_range[1] = arg.start_date
      [] f = "end_date"   -> Len(echo.date_range) = 3 /\ echo.date_range[3] = arg.end_date
      [] f = "file_path"  -> echo.file_path = arg.file_path
      [] OTHER            -> echo[f] = arg[f]

\* C22: the filters echo of a per-source response reports the effective
\* filters: a filter is rendered as "all" exactly when the call left it unset,
\* and otherwise the echo shows the value that was applied to the results; each
\* bound of the Discord date range counts as a filter of its own.
C22_EchoReportsEffectiveFilters ==
    (out.op \in FilteredOps /\ ~out.result.threw) =>
        \A f \in FilterNames(out.source) :
            IF arg[f] = Unset(f)
            THEN EchoedAsAll(out.result.value.filters, f)
            ELSE EchoedValue(out.result.value.filters, f)


-----------------------------------------------------------------------------
(* Tool calls whose query may be missing                                    *)

\* a missing and an empty query are both falsy; <<>> stands for either
ArgQueries == {<<>>, <<"a">>}

ArgParams(sources) ==
    {Params(q, l, w, "", sources) : q \in ArgQueries, l \in ProcessLimits, w \in ProcessWeights}

\* the server process taking calls with and without a query
NextArgs ==
    \/ \E r \in Requests, s \in ProcessSources, tool \in {"semantic", "hybrid"} :
          \E p \in ArgParams({s}) : StartSource(r, s, tool, p)
    \/ \E r \in Requests, tool \in {"unified_semantic", "unified_hybrid"} :
          \E S \in SUBSET ProcessSources : \E p \in ArgParams(S) : StartUnified(r, tool, p)
    \/ \E r \in Requests, s \in Sources : PathResolved(r, s)
    \/ \E r \in Requests, s \in Sources : LoadDone(r, s)
    \/ \E r \in Requests, s \in Sources : PipelineDone(r, s)
    \/ \E r \in Requests, s \in Sources : EmbedDone(r, s)
    \/ \E r \in Requests, s \in Sources : EmbedFail(r, s)
    \/ \E r \in Requests : Finish(r)
    \/ \E s \in ProcessSources : Reindex(s)

SpecArgs == Init /\ [][NextArgs]_vars

QueryRequired == Threw("query is required")

\* the step on which tool call r arrives
Arrives(r) == req[r].state = "free" /\ req'[r].state # "free"

\* the step on which tool call r settles
Settles(r) == req[r].state = "running" /\ req'[r].state # "running"

\* C23: a search operation (per-source semantic or hybrid, unified semantic or
\* hybrid) called without a query raises the argument error: the check is made
\* on arrival, before any collection is loaded or its path looked up and
\* before the embedding provider is called, so the adapters' caches and the
\* embedder are left as they were, and the call fails with that error.
C23_MissingQueryRejectedFirst ==
    [][\A r \in Requests :
          /\ (Arrives(r) /\ req'[r].params.query = <<>>) =>
                /\ \A s \in req'[r].params.sources :
                      IsUnified(req'[r].tool) \/ call'[r][s] =
                          [NoHandlerCall EXCEPT !.pc = "done", !.outcome = QueryRequired]
                /\ IsUnified(req'[r].tool) =>
                      /\ req'[r].state = "failed"
                      /\ req'[r].response = QueryRequired
                      /\ call'[r] = call[r]
                /\ <<vectors, vectorDbPath, embedder, pipelineCalls, loadCalls, disk>>' =
                      <<vectors, vectorDbPath, embedder, pipelineCalls, loadCalls, disk>>
          /\ (Settles(r) /\ req[r].params.query = <<>>) =>
                /\ req'[r].state = "failed"
                /\ req'[r].response = QueryRequired]_vars

\* a unified call and a per-source hybrid call, both without a query, have
\* failed on cold adapters whose snapshot exists
C23_Witness ==
    /\ \E r \in Requests :
          /\ req[r].tool = "unified_hybrid"
          /\ req[r].params.sources = ProcessSources
          /\ req[r].params.query = <<>>
          /\ req[r].state = "failed"
    /\ \E r \in Requests :
          /\ req[r].tool = "hybrid"
          /\ req[r].params.query = <<>>
          /\ req[r].state = "failed"
          /\ req[r].response = QueryRequired
    /\ \A s \in ProcessSources : disk[s] = 1 /\ vectors[s] = 0 /\ ~vectorDbPath[s]
    /\ embedder = 0
    /\ pipelineCalls = 0


-----------------------------------------------------------------------------
(* source_counts of the unified responses                                   *)

\* how many results of rs carry the source tag s
TaggedCount(rs, s) == Cardinality({i \in 1..Len(rs) : rs[i].source = s})

\* the merged, sorted result list of the last unified call before
\* `allResults.slice(0, limit)` cuts it
UncutMerge ==
    IF out.op = "unified_hybrid"
    THEN unifiedHybridJoin(OutcomesOf(out), [arg EXCEPT !.limit = TotalDocs]).value.results
    ELSE unifiedSemanticJoin(OutcomesOf(out), [arg EXCEPT !.limit = TotalDocs]).value.results

CountSum(counts) == SumSeq([k \in 1..Len(SourceOrder) |-> counts[SourceOrder[k]]])

\* C24 as stated: source_counts[s] is the number of results tagged s in the
\* returned merged results, for every source s, so the counts sum to
\* total_results; it is 0 for a source that was not requested, failed, or had
\* no relevant results.
C24_SourceCountsMatchReturned ==
    (out.op \in UnifiedOps /\ ~out.result.threw) =>
        /\ \A s \in Sources :
              /\ out.result.value.source_counts[s] = TaggedCount(out.result.value.results, s)
              /\ (s \notin arg.sources \/ s \in out.failing \/ coll[s] = <<>>)
                    => out.result.value.source_counts[s] = 0
        /\ CountSum(out.result.value.source_counts) = out.result.value.total_results

\* C24, amended: source_counts[s] is the number of results source s handed to
\* the merge (the total_results of its own response), counted before the
\* merged list is cut to limit: the returned results tagged s are at most
\* that many, the counts sum to at least total_results, and to exactly
\* total_results when the sources together found no more than limit; it is 0
\* for a source that was not requested, failed, or had no results.
C24_SourceCountsArePerSourceTotals ==
    (out.op \in UnifiedOps /\ ~out.result.threw) =>
        /\ \A s \in Sources :
              /\ out.result.value.source_counts[s] = TaggedCount(UncutMerge, s)
              /\ TaggedCount(out.result.value.results, s) <= out.result.value.source_counts[s]
              /\ (s \notin arg.sources \/ s \in out.failing \/ coll[s] = <<>>)
                    => out.result.value.source_counts[s] = 0
        /\ CountSum(out.result.value.source_counts) >= out.result.value.total_results
        /\ CountSum(out.result.value.source_counts) <= arg.limit
              => \A s \in Sources :
                    out.result.value.source_counts[s] =
                        TaggedCount(out.result.value.results, s)

\* two sources found one result each and the merge, cut to limit 1, returned
\* one of them
C24_Witness ==
    /\ out.op \in UnifiedOps
    /\ ~out.result.threw
    /\ arg.limit = 1
    /\ out.result.value.source_counts["discord"] = 1
    /\ out.result.value.source_counts["docs"] = 1
    /\ out.result.value.total_results = 1
    /\ TaggedCount(out.result.value.results, "docs") = 0


-----------------------------------------------------------------------------
(* What a search does to the cached array it is handed                      *)

\* A buggy variant that scores and sorts the caller's array itself.
searchArraysInPlace(queryVector, documents) ==
    LET scored == [i \in 1..Len(documents) |->
                      [f \in (DOMAIN documents[i]) \cup {"similarity"} |->
                          IF f = "similarity"
                          THEN cosineSimilarity(queryVector, documents[i].embedding).value
                          ELSE documents[i][f]]]
    IN  [documents |-> SortDesc(scored, Similarity),
         results   |-> SortDesc(scored, Similarity)]

\* The two arrays vectorSearch works with, as it leaves them: `documents.map`
\* builds a new array of new objects ({ ...doc, similarity }), and `results.sort`
\* sorts that new array in place; `documents` and its records are only read.
\* The adapters and the aggregator read `metadata` of the results and build
\* their own objects and arrays from it.
searchArrays(queryVector, documents) ==
    LET results == [i \in 1..Len(documents) |->
                       [f \in (DOMAIN documents[i]) \cup {"similarity"} |->
                           IF f = "similarity"
                           THEN cosineSimilarity(queryVector, documents[i].embedding).value
                           ELSE documents[i][f]]]
    IN  [documents |-> documents,
         results   |-> SortDesc(results, Similarity)]

\* vectorSearch, <s>SemanticSearch or <s>HybridSearch on the cached collection
\* of source s; each calls vectorSearch(queryVector, docs, ...) once
CachedSearch(s, op, params) ==
    /\ arg' = params
    /\ out' = [result |-> CASE op = "vectorSearch" -> vectorSearch(qvec, coll[s], params.limit)
                            [] op = "semantic" -> semanticSearch(s, coll[s], qvec, params)
                            [] op = "hybrid" -> hybridSearch(s, coll[s], qvec, params),
               source |-> s,
               failing |-> {},
               op |-> op]
    /\ coll' = [coll EXCEPT ![s] = searchArrays(qvec, coll[s]).documents]
    /\ UNCHANGED <<processVars, indexVars, qvec>>

\* unified_semantic_search / unified_hybrid_search with every adapter warm:
\* one per-source search on each requested source
CachedUnified(op, params) ==
    /\ arg' = params
    /\ out' = [result |-> IF op = "unified_hybrid"
                          THEN unifiedHybridJoin(hybridOutcomes(params, {}), params)
                          ELSE unifiedSemanticJoin(semanticOutcomes(params, {}), params),
               source |-> "",
               failing |-> {},
               op |-> op]
    /\ coll' = [s \in Sources |->
                   IF s \in params.sources THEN searchArrays(qvec, coll[s]).documents
                   ELSE coll[s]]
    /\ UNCHANGED <<processVars, indexVars, qvec>>

\* every adapter warm with the same at most MaxDocs records
InitCache ==
    /\ IdleProcess
    /\ IdleIndexer
    /\ \E n \in 0..MaxDocs : \E d \in Collections(n) : coll = CollOf(d, d, d)
    /\ arg = NoCall
    /\ qvec \in QueryVectors
    /\ out = NoOutput

\* any number of queries, one after the other, on warm adapters
NextCache ==
    \/ \E s \in Sources, l \in 1..MaxLimit :
          CachedSearch(s, "vectorSearch", Params(<<>>, l, 0, "", {}))
    \/ \E s \in Sources, q \in Queries, l \in 1..MaxLimit, tag \in TagFilters :
          \E op \in {"semantic", "hybrid"} : CachedSearch(s, op, Params(q, l, 5, tag, {}))
    \/ \E q \in Queries, l \in 1..MaxLimit, S \in SUBSET ProcessSources :
          \E op \in UnifiedOps : CachedUnified(op, Params(q, l, 5, "", S))

SpecCache == InitCache /\ [][NextCache]_vars

-----------------------------------------------------------------------------
(* The aggregator's fan-out and join, the per-source calls settling in any  *)
(* order                                                                    *)

\* The aggregator between its fan-out and its return.  `values` are the
\* fulfilment values of the promises in searchPromises, by source;
\* `sourceResults` and `errors` are the objects the .then and .catch callbacks
\* write; `settled` lists the sources in the order their calls completed.
Fanned(op, params, failing) ==
    [result |-> Returned(<<>>),
     source |-> "",
     settled |-> <<>>,
     errors |-> [s \in {} |-> ""],
     failing |-> failing,
     op |-> op,
     values |-> [s \in {} |-> <<>>],
     pc |-> "waiting",
     pending |-> params.sources,
     sourceResults |-> [s \in {} |-> <<>>]]

\* f with key k set to v (obj[k] = v)
Assign(f, k, v) == [x \in (DOMAIN f) \cup {k} |-> IF x = k THEN v ELSE f[x]]

\* the callbacks attached to the handler call of source s run on its outcome:
\* .then stores the response and fulfils with the tagged results, .catch
\* stores the message and fulfils with []
settle(agg, s, outcome) ==
    IF outcome.threw
    THEN [agg EXCEPT !.pending = @ \ {s},
                     !.settled = Append(@, s),
                     !.values = Assign(@, s, <<>>),
                     !.errors = Assign(@, s, outcome.error)]
    ELSE [agg EXCEPT !.pending = @ \ {s},
                     !.settled = Append(@, s),
                     !.values = Assign(@, s, taggedResults(s, outcome)),
                     !.sourceResults = Assign(@, s, outcome.value)]

\* A buggy variant that collects the results in the order the calls completed.
fulfilledValuesAsSettled(agg, sources) ==
    Concat([k \in 1..Len(agg.settled) |-> agg.values[agg.settled[k]]])

\* results = await Promise.all(searchPromises); results.forEach(push): the
\* fulfilment values in the order the promises were pushed
fulfilledValues(agg, sources) ==
    Concat([k \in 1..Len(SourceOrder) |->
               IF SourceOrder[k] \in sources THEN agg.values[SourceOrder[k]] ELSE <<>>])

\* sourceResults.<s>?.total_results || 0, from what the callbacks stored
storedCounts(agg) ==
    [s \in Sources |->
        IF s \in DOMAIN agg.sourceResults THEN agg.sourceResults[s].total_results ELSE 0]

\* the response the aggregator builds once Promise.all has fulfilled
joined(agg, params) ==
    LET Key(r)     == IF agg.op = "unified_hybrid" THEN hybridSortKey(r, params.query)
                      ELSE r.similarity
        allResults == SortDesc(fulfilledValues(agg, params.sources), Key)
        topResults == Slice(allResults, params.limit)
    IN  IF agg.op = "unified_hybrid"
        THEN Returned([results         |-> topResults,
                       query           |-> params.query,
                       total_results   |-> Len(topResults),
                       search_type     |-> "unified_hybrid",
                       weights         |-> [keyword  |-> WeightScale - params.semantic_weight,
                                            semantic |-> params.semantic_weight],
                       sources_searched |-> params.sources,
                       source_counts   |-> storedCounts(agg),
                       errors          |-> agg.errors])
        ELSE Returned([results         |-> topResults,
                       query           |-> params.query,
                       total_results   |-> Len(topResults),
                       search_type     |-> "unified_semantic",
                       sources_searched |-> params.sources,
                       source_counts   |-> storedCounts(agg),
                       errors          |-> agg.errors])

\* unifiedSemanticSearch / unifiedHybridSearch up to `await Promise.all`: every
\* requested handler is called, one after the other, none awaited
FanOut(op, params, failing) ==
    /\ out.op = "none"
    /\ arg' = params
    /\ out' = Fanned(op, params, failing)
    /\ UNCHANGED <<processVars, indexVars, coll, qvec>>

\* the handler call of source s completes and its callbacks run
Settle(s) ==
    /\ out.op \in UnifiedOps
    /\ out.pc = "waiting"
    /\ s \in out.pending
    /\ out' = settle(out, s, OutcomesOf(out)[s])
    /\ UNCHANGED <<processVars, indexVars, coll, qvec, arg>>

\* every promise has fulfilled: Promise.all fulfils and the aggregator returns
Join ==
    /\ out.op \in UnifiedOps
    /\ out.pc = "waiting"
    /\ out.pending = {}
    /\ out' = [out EXCEPT !.pc = "done", !.result = joined(out, arg)]
    /\ UNCHANGED <<processVars, indexVars, coll, qvec, arg>>

NextJoin ==
    \/ \E op \in UnifiedOps, q \in Queries, l \in 1..MaxLimit, S \in SUBSET Sources,
          F \in SUBSET Sources :
          F \subseteq S /\ FanOut(op, Params(q, l, 5, "", S), F)
    \/ \E s \in Sources : Settle(s)
    \/ Join

\* the aggregator passes no filters on, so one tag will do
JoinCollections(n) ==
    {[i \in 1..n |-> MakeRecord(i, q[i][1], q[i][2], "x")] :
        q \in ShapeSeqs(Embeddings \X Texts, n)}

\* three warm adapters holding at most MaxDocs records between them
InitJoin ==
    /\ IdleProcess
    /\ IdleIndexer
    /\ \E i, j, k \in 0..MaxDocs :
          /\ i + j + k <= MaxDocs
          /\ \E d \in JoinCollections(i), c \in JoinCollections(j), n \in JoinCollections(k) :
                coll = CollOf(d, c, n)
    /\ arg = NoCall
    /\ qvec \in QueryVectors
    /\ out = NoOutput

SpecJoin == InitJoin /\ [][NextJoin]_vars

\* the response as a function of how the per-source calls settled, whatever
\* the order they settled in
OutcomeResponse ==
    IF out.op = "unified_hybrid"
    THEN unifiedHybridJoin(OutcomesOf(out), arg)
    ELSE unifiedSemanticJoin(OutcomesOf(out), arg)

\* C26: the aggregator issues every requested per-source call before it
\* awaits any of them and joins on all of them: while it waits, each
\* requested source is either pending or settled; once it returns, the merged
\* result sequence, source_counts and errors are those fixed by the
\* per-source outcomes alone, whatever order the calls completed in.
C26_JoinIndependentOfCompletionOrder ==
    out.op \in UnifiedOps =>
        /\ out.pending \cup {out.settled[k] : k \in 1..Len(out.settled)} = arg.sources
        /\ out.pc = "done" =>
              /\ out.pending = {}
              /\ out.result.value.results = OutcomeResponse.value.results
              /\ out.result.value.total_results = OutcomeResponse.value.total_results
              /\ out.result.value.source_counts = OutcomeResponse.value.source_counts
              /\ out.result.value.errors = OutcomeResponse.value.errors

\* the call on docs completed before the call on discord, both found a
\* result of the same score, and the response lists discord's first
C26_Witness ==
    /\ out.op \in UnifiedOps
    /\ out.pc = "done"
    /\ Len(out.settled) >= 2
    /\ out.settled[1] = "docs"
    /\ out.settled[2] = "discord"
    /\ Len(out.result.value.results) = 2
    /\ out.result.value.results[1].source = "discord"
    /\ out.result.value.results[2].source = "docs"
    /\ out.result.value.results[1].similarity = out.result.value.results[2].similarity


\* positions of the records of adapter s that meet every supplied filter
PassingPositions(s) ==
    {i \in 1..Len(coll[s]) : \A f \in Supplied(s) : Meets(coll[s][i].metadata, f)}

SimilarityAt(s, i) == cosineSimilarity(qvec, coll[s][i].embedding).value

\* C27: a filtered per-source semantic search returns the best matching
\* records of the whole collection: when at least limit records of the
\* collection meet the supplied filters, exactly limit results come back, each
\* meets the filters, and no record that meets them and was left out is more
\* similar to the query than one that was returned.
C27_FilteredSearchReturnsBestOfCollection ==
    (out.op = "semantic" /\ ~out.result.threw /\ Supplied(out.source) # {}
       /\ Cardinality(PassingPositions(out.source)) >= arg.limit) =>
        LET rs       == out.result.value.results
            returned == {rs[k].pos : k \in 1..Len(rs)}
        IN  /\ Len(rs) = arg.limit
            /\ returned \subseteq PassingPositions(out.source)
            /\ \A i \in PassingPositions(out.source) \ returned : \A k \in 1..Len(rs) :
                  SimilarityAt(out.source, i) <= rs[k].similarity


-----------------------------------------------------------------------------
(* What chunkText keeps of its input                                        *)

\* the characters of str that are no whitespace, in order
RECURSIVE NonWhitespace(_)
NonWhitespace(str) ==
    IF str = <<>> THEN <<>>
    ELSE (IF IsSpace(Head(str)) THEN <<>> ELSE <<Head(str)>>) \o NonWhitespace(Tail(str))

\* C28: chunkText loses no content: for any text, chunkSize and separator, the
\* returned chunks, taken in order, hold every non-whitespace character of the
\* input exactly once and in input order, also when a section longer than
\* chunkSize is split at sentence boundaries.
C28_ChunksKeepAllContent ==
    chunked.op = "chunkText" =>
        NonWhitespace(Concat(chunked.chunks)) = NonWhitespace(chunked.text)


-----------------------------------------------------------------------------
(* Hybrid search on queries with characters that mean something to RegExp   *)

\* queries of one or two keywords: letters, a wildcard, an unclosed group,
\* and a leading blank (which makes an empty keyword)
KeywordQueries ==
    {<<"a">>, <<".">>, <<"(">>, <<"a", " ", "(">>, <<" ", "a">>, <<"a", ".">>}

NextKeyword ==
    \/ \E s \in Sources, q \in KeywordQueries, l \in 1..MaxLimit, tag \in TagFilters :
          DoSemanticSearch(s, Params(q, l, 0, tag, {}))
    \/ \E s \in Sources, q \in KeywordQueries, l \in 1..MaxLimit, w \in Weights,
          tag \in TagFilters :
          DoHybridSearch(s, Params(q, l, w, tag, {}))

SpecKeyword == InitCache /\ [][NextKeyword]_vars

\* C29: hybridSearch never fails on a query for which semanticSearch on the
\* same adapter with the same filters succeeds: whatever characters the
\* whitespace-separated keywords of the query hold, keyword scoring completes
\* and gives every result a keyword_score between 0 and 1.
C29_HybridSucceedsWhereSemanticDoes ==
    (out.op = "hybrid" /\ ~semanticSearch(out.source, coll[out.source], qvec, arg).threw) =>
        /\ ~out.result.threw
        /\ \A k \in 1..Len(out.result.value.results) :
              /\ out.result.value.results[k].keyword_score >= 0
              /\ out.result.value.results[k].keyword_score <= 5 * Len(keywordsOf(arg.query))


-----------------------------------------------------------------------------
(* Queries on an adapter whose snapshot appears while the server runs       *)

\* the server process taking per-source semantic queries, the provider healthy
NextLive ==
    \/ \E r \in Requests, s \in ProcessSources :
          \E p \in ProcessParams({s}) : StartSource(r, s, "semantic", p)
    \/ \E r \in Requests, s \in ProcessSources : PathResolved(r, s)
    \/ \E r \in Requests, s \in ProcessSources : LoadDone(r, s)
    \/ \E r \in Requests, s \in ProcessSources : PipelineDone(r, s)
    \/ \E r \in Requests, s \in ProcessSources : EmbedDone(r, s)
    \/ \E r \in Requests : Finish(r)
    \/ \E s \in ProcessSources : Reindex(s)

\* an awaited path lookup or file read completes, and the event loop then runs
\* the continuation that waits for it
Completion ==
    \A r \in Requests, s \in ProcessSources :
        WF_vars(PathResolved(r, s)) /\ WF_vars(LoadDone(r, s))

SpecLive == Init /\ [][NextLive]_vars /\ Completion

\* a query on adapter s has failed for want of its snapshot
FailedForAbsence(s) ==
    \E r \in Requests :
        call[r][s].pc = "done" /\ call[r][s].outcome = Threw(NotInitialized(s))

\* the handler call of request r on source s is inside initialize<S>Vectors
Initializing(r, s) == call[r][s].pc \in {"path", "read"}

\* C30: a failed load is not cached: a query fails for want of the snapshot
\* only while the snapshot is absent, and the failure leaves the adapter
\* without a collection; after such a failure, a query that is initializing
\* the adapter once the snapshot exists gets it loaded, in the same process,
\* and a query that ran on a loaded collection returns a normal response.
C30_FailedLoadNotCached ==
    /\ [][\A r \in Requests, s \in ProcessSources :
             (call[r][s].pc # "done" /\ call'[r][s].pc = "done"
                /\ call'[r][s].outcome = Threw(NotInitialized(s)))
                 => (disk[s] = 0 /\ vectors'[s] = 0)]_vars
    /\ \A r \in Requests, s \in ProcessSources :
          (FailedForAbsence(s) /\ disk[s] >= 1 /\ Initializing(r, s))
              ~> (vectors[s] # 0 /\ call[r][s].docs # 0)
    /\ [](\A r \in Requests, s \in ProcessSources :
             (call[r][s].pc = "done" /\ call[r][s].docs # 0)
                 => (~call[r][s].outcome.threw
                       /\ call[r][s].outcome.value.total_results
                             = Min(call[r][s].docs, HandlerParams(r).limit)))

\* the first query on discord failed for want of the snapshot, the snapshot
\* was then written, and the second query loaded it and returned results
C30_Witness ==
    /\ call[1]["discord"].pc = "done"
    /\ call[1]["discord"].outcome = Threw(NotInitialized("discord"))
    /\ disk["discord"] >= 1
    /\ vectors["discord"] = disk["discord"]
    /\ call[2]["discord"].pc = "done"
    /\ ~call[2]["discord"].outcome.threw
    /\ call[2]["discord"].outcome.value.total_results >= 1
    /\ req[2].state = "done"

====
